---- MODULE Spec2Model ----
(***************************************************************************)
(* precap: the Calendar component (sign-in, calendar grid, attendee        *)
(* selection, the research run), the exa and summary client services, the  *)
(* summary route with the results view's source links, and the Google Docs *)
(* service.                                                                *)
(*                                                                         *)
(* Strings are sequences of one-character strings, so that length, split   *)
(* and concatenation are computed and not assumed.  Dates are hours since  *)
(* a Sunday 00:00.                                                         *)
(***************************************************************************)
EXTENDS Integers, Sequences, FiniteSets, TLC

\* ------------------------------------------------------------------ bounds
MaxAuth == 2        \* handleSignIn clicks that reach handleAuthClick
MaxDay == 8         \* the calendar grid shows the days 0..MaxDay
MaxClicks == 3      \* calls of handleAttendeeSelect
MaxManual == 1      \* submits of the manual attendee form
MaxRuns == 2        \* research runs started by Continue
MaxAttendees == 2   \* attendees selected when a research run starts
MaxSources == 2     \* search results of a person, sources of a summary
MaxPieces == 3      \* pieces of the text the chat completion answers with
MaxDocs == 4        \* calls of createMeetingDoc made from one results view

\* null or undefined where an object is expected
Null == [null |-> TRUE]
\* selectedWeek null
NoDate == -1
\* the error field of a record that has none
NoError == <<>>
\* an optional array: undefined, or the array
None == <<>>
Some(x) == <<x>>

\* ----------------------------------------------------------------- strings
RECURSIVE Join(_, _)
\* Array.prototype.join
Join(parts, sep) ==
  IF Len(parts) = 0 THEN <<>>
  ELSE IF Len(parts) = 1 THEN parts[1]
  ELSE parts[1] \o sep \o Join(Tail(parts), sep)

\* String.prototype.startsWith at a position (1-based)
MatchAt(s, pos, pat) ==
  /\ pos + Len(pat) - 1 <= Len(s)
  /\ \A k \in 1..Len(pat) : s[pos + k - 1] = pat[k]

RECURSIVE SplitFrom(_, _, _, _)
SplitFrom(s, pat, pos, cur) ==
  IF pos > Len(s) THEN <<cur>>
  ELSE IF MatchAt(s, pos, pat)
       THEN <<cur>> \o SplitFrom(s, pat, pos + Len(pat), <<>>)
       ELSE SplitFrom(s, pat, pos + 1, Append(cur, s[pos]))

\* String.prototype.split with a non-empty string separator
Split(s, pat) == SplitFrom(s, pat, 1, <<>>)

\* String.prototype.includes
Includes(s, pat) == \E pos \in 1..Len(s) : MatchAt(s, pos, pat)

RECURSIVE SplitAnyFrom(_, _, _, _)
SplitAnyFrom(s, chars, pos, cur) ==
  IF pos > Len(s) THEN <<cur>>
  ELSE IF s[pos] \in chars
       THEN <<cur>> \o SplitAnyFrom(s, chars, pos + 1, <<>>)
       ELSE SplitAnyFrom(s, chars, pos + 1, Append(cur, s[pos]))

\* String.prototype.split with a character class, as in split(/[.+]/)
SplitAny(s, chars) == SplitAnyFrom(s, chars, 1, <<>>)

Letters == <<"a", "b", "c", "d", "l">>
Capitals == <<"A", "B", "C", "D", "L">>

\* toUpperCase / toLowerCase of one character
UpperChar(c) ==
  IF \E k \in 1..Len(Letters) : Letters[k] = c
  THEN Capitals[CHOOSE k \in 1..Len(Letters) : Letters[k] = c] ELSE c
LowerChar(c) ==
  IF \E k \in 1..Len(Capitals) : Capitals[k] = c
  THEN Letters[CHOOSE k \in 1..Len(Capitals) : Capitals[k] = c] ELSE c
toLowerCase(s) == [k \in 1..Len(s) |-> LowerChar(s[k])]

\* s.charAt(0).toUpperCase() + s.slice(1)
Capitalize(s) == IF Len(s) = 0 THEN <<>> ELSE <<UpperChar(s[1])>> \o Tail(s)

RECURSIVE TrimStart(_)
TrimStart(s) == IF Len(s) > 0 /\ s[1] = " " THEN TrimStart(Tail(s)) ELSE s
RECURSIVE TrimEnd(_)
TrimEnd(s) ==
  IF Len(s) > 0 /\ s[Len(s)] = " " THEN TrimEnd(SubSeq(s, 1, Len(s) - 1)) ELSE s
\* String.prototype.trim
Trim(s) == TrimEnd(TrimStart(s))

RECURSIVE DotSpaces(_)
\* replace(/\s+/g, '.'): every run of white space becomes one dot
DotSpaces(s) ==
  IF Len(s) = 0 THEN <<>>
  ELSE IF s[1] = " "
       THEN <<".">> \o DotSpaces(TrimStart(s))
       ELSE <<s[1]>> \o DotSpaces(Tail(s))

RECURSIVE ToDecimal(_)
\* the decimal digits of a natural number, as `${n}` prints it
ToDecimal(n) ==
  LET d == <<"0", "1", "2", "3", "4", "5", "6", "7", "8", "9">>
  IN IF n < 10 THEN <<d[n + 1]>> ELSE ToDecimal(n \div 10) \o <<d[(n % 10) + 1]>>

\* ------------------------------------------------------------------- dates
HoursPerDay == 24
DaysPerWeek == 7

\* the calendar day of a dateTime
DayOf(t) == t \div HoursPerDay
\* date-fns isSameDay
isSameDay(a, b) == DayOf(a) = DayOf(b)
\* date-fns startOfWeek (weeks start on Sunday)
startOfWeek(t) == (DayOf(t) - (DayOf(t) % DaysPerWeek)) * HoursPerDay
\* date-fns endOfWeek: the last hour of the Saturday
endOfWeek(t) == startOfWeek(t) + DaysPerWeek * HoursPerDay - 1
\* date-fns eachDayOfInterval: the start of every day of the interval
eachDayOfInterval(start, end) ==
  [k \in 1..(DayOf(end) - DayOf(start) + 1) |-> (DayOf(start) + k - 1) * HoursPerDay]

Range(s) == {s[k] : k \in 1..Len(s)}

\* ---------------------------------------------------------------- calendar
\* attendees as the calendar provider returns them
AnnLee == [email |-> <<"a", ".", "l", "@", "x">>, displayName |-> <<"A">>]
Bob == [email |-> <<"b", "@", "x">>, displayName |-> <<>>]

\* what listUpcomingEvents can answer: response.result.items
CalendarItems ==
  << [id |-> <<"e", "1">>, start |-> 1 * HoursPerDay + 10, attendees |-> <<AnnLee, Bob>>],
     [id |-> <<"e", "2">>, start |-> 1 * HoursPerDay + 15, attendees |-> <<Bob>>],
     [id |-> <<"e", "3">>, start |-> 7 * HoursPerDay + 9, attendees |-> <<AnnLee>>] >>
ItemLists == {CalendarItems, SubSeq(CalendarItems, 1, 1)}

\* the days of the calendar grid (CalendarGrid calendarDays)
calendarDays == [k \in 1..(MaxDay + 1) |-> (k - 1) * HoursPerDay]

VARIABLES
  apiCalendar,        \* the ApiCalendar instance exists
  apiSign,            \* apiCalendar.sign
  isSignedIn, events,
  selectedDate, selectedWeek, selectedDayEvents, selectedWeekEvents,
  isCalendarCollapsed,
  authPending,        \* handleAuthClick promises not yet settled
  listPending,        \* listUpcomingEvents promises not yet settled
  authCalls, authOk, authFailed, fetchCalls,  \* history of the sign-in
  lastClick,          \* history: the last click on a day of the grid
  selectedAttendees,          \* Set of attendee keys
  selectedAttendeesDetails,   \* Map key -> {eventId, attendee}, in insertion order
  enhancedAttendees,          \* the entries of the cache of contact details
  pendingSelects,     \* handleAttendeeSelect calls waiting for fetchContactDetails
  contactCalls,       \* history: the emails fetchContactDetails was called with
  clicks,             \* history: number of handleAttendeeSelect calls
  now,                \* Date.now() of the next submit of the manual form
  expectedSel,        \* history: the key set after toggling in click order
  isSearching, searchResults, showResults, summaries, loadingState,
  runPc,              \* where handleContinue stands
  attendees, results, summariesResults,     \* the locals of handleContinue
  outstanding,        \* requests of the run that have not returned
  searchCalls, summaryCalls,  \* history: the names requested in this run
  runs,               \* history: number of runs started
  gapiClient,         \* window.gapi.client exists
  authToken,          \* window.gapi.auth.getToken() returns a token
  docsLoaded,         \* window.gapi.client.docs exists
  docPc,              \* where createMeetingDoc stands
  attempts,           \* loadDocsApi: ticks of the checkGapi interval
  docsCheckGapi,      \* loadDocsApi: the checkGapi interval is active
  docsVerified,       \* history: an access probe of the session answered 404
  docInput,           \* the summary createMeetingDoc is called with, and the date
  documentId, docRequests,    \* the locals of createMeetingDoc
  docResult,          \* how the promise of createMeetingDoc settled
  docLog,             \* history: the requests of this call and their outcomes
  sumPc,              \* where the request of one summary stands
  sumInput,           \* the personInfo posted to the summary route
  sumPrompt,          \* finalPrompt of the summary route
  sumResponse,        \* the response of the summary route
  sumRecord,          \* what generatePersonSummary returned
  sumParts,           \* the children renderSummaryWithLinks rendered
  progressWidth,      \* ExaResults progressWidth, a fraction num/den; 0 while unmounted
  callPc,             \* where a call of a client service stands
  callFn,             \* the client service called
  callInput,          \* its argument: a name, or a personInfo
  callResponse,       \* what its fetch gave
  callResult,         \* how its promise settled
  lookupPc,           \* where a call of fetchContactDetails stands
  lookupEmail,        \* its argument
  checkGapi,          \* the setInterval of the gapi wait is active
  gapiTimeout,        \* the setTimeout of the gapi wait is pending
  waited,             \* runs of the interval callback before the timeout
  peopleApi,          \* window.gapi.client.people
  lookupPerson,       \* the person the strategies found, or null
  queries,            \* history: the strategies run and whether each found a person
  threw,              \* history: a People API call threw
  lookupResult,       \* what fetchContactDetails returned
  creatingDocs,       \* ExaResults creatingDocs: the names mapped to true
  docUrls,            \* ExaResults docUrls: the entries name, url
  notesPending,       \* handleCreateDoc calls waiting for createMeetingDoc
  docsCreated         \* history: the names documents were created for, in order

calVars == <<apiCalendar, apiSign, isSignedIn, events, selectedDate, selectedWeek,
             selectedDayEvents, selectedWeekEvents, isCalendarCollapsed,
             authPending, listPending, authCalls, authOk, authFailed, fetchCalls,
             lastClick>>

selVars == <<selectedAttendees, selectedAttendeesDetails, enhancedAttendees,
             pendingSelects, contactCalls, clicks, now, expectedSel>>

runVars == <<isSearching, searchResults, showResults, summaries, loadingState,
             runPc, attendees, results, summariesResults, outstanding,
             searchCalls, summaryCalls, runs>>

docVars == <<gapiClient, authToken, docsLoaded, docPc, attempts, docsCheckGapi,
             docsVerified, docInput,
             documentId, docRequests, docResult, docLog>>

sumVars == <<sumPc, sumInput, sumPrompt, sumResponse, sumRecord, sumParts>>

researchVars == <<selVars, runVars>>

callVars == <<callPc, callFn, callInput, callResponse, callResult>>

lookupVars == <<lookupPc, lookupEmail, checkGapi, gapiTimeout, waited, peopleApi,
                lookupPerson, queries, threw, lookupResult>>

notesVars == <<creatingDocs, docUrls, notesPending, docsCreated>>

serviceVars == <<docVars, sumVars, callVars, lookupVars, notesVars>>

viewVars == <<progressWidth>>

vars == <<calVars, selVars, runVars, docVars, sumVars, callVars, lookupVars, notesVars,
          viewVars>>

\* new Date() when the component is constructed
Today == 3 * HoursPerDay + 11

CalInit ==
  /\ apiCalendar = FALSE
  /\ apiSign = FALSE
  /\ isSignedIn = FALSE
  /\ events = <<>>
  /\ selectedDate = Today
  /\ selectedWeek = NoDate
  /\ selectedDayEvents = <<>>
  /\ selectedWeekEvents = <<>>
  /\ isCalendarCollapsed = FALSE
  /\ authPending = 0
  /\ listPending = 0
  /\ authCalls = 0 /\ authOk = 0 /\ authFailed = 0 /\ fetchCalls = 0
  /\ lastClick = [kind |-> "none", date |-> Today, hadDay |-> FALSE, hadWeek |-> FALSE]

SelInit ==
  /\ selectedAttendees = {}
  /\ selectedAttendeesDetails = <<>>
  /\ enhancedAttendees = {}
  /\ pendingSelects = <<>>
  /\ contactCalls = <<>>
  /\ clicks = 0
  /\ now = 0
  /\ expectedSel = {}

RunInit ==
  /\ isSearching = FALSE
  /\ searchResults = <<>>
  /\ showResults = FALSE
  /\ summaries = <<>>
  /\ loadingState = Null
  /\ runPc = "idle"
  /\ attendees = <<>>
  /\ results = <<>>
  /\ summariesResults = <<>>
  /\ outstanding = {}
  /\ searchCalls = <<>>
  /\ summaryCalls = <<>>
  /\ runs = 0

dateVars == <<selectedDate, selectedWeek, selectedDayEvents, selectedWeekEvents,
              isCalendarCollapsed, lastClick>>
signVars == <<apiCalendar, apiSign, isSignedIn, events, authPending, listPending,
              authCalls, authOk, authFailed, fetchCalls>>

\* useEffect(() => setApiCalendar(new ApiCalendar(config)), [])
Mount ==
  /\ ~apiCalendar
  /\ apiCalendar' = TRUE
  /\ UNCHANGED <<apiSign, isSignedIn, events, authPending, listPending,
                 authCalls, authOk, authFailed, fetchCalls>>
  /\ UNCHANGED dateVars
  /\ UNCHANGED <<researchVars, serviceVars, viewVars>>

\* the "Connect Google Calendar" button, shown while not signed in
handleSignIn ==
  /\ ~isSignedIn
  /\ authCalls < MaxAuth
  /\ apiCalendar              \* if (!apiCalendar) return
  /\ authPending' = authPending + 1
  /\ authCalls' = authCalls + 1
  /\ UNCHANGED <<apiCalendar, apiSign, isSignedIn, events, listPending,
                 authOk, authFailed, fetchCalls>>
  /\ UNCHANGED dateVars
  /\ UNCHANGED <<researchVars, serviceVars, viewVars>>

\* fetchEvents up to its await: one listUpcomingEvents call
fetchEvents ==
  IF apiCalendar
  THEN listPending' = listPending + 1 /\ fetchCalls' = fetchCalls + 1
  ELSE UNCHANGED <<listPending, fetchCalls>>

\* handleAuthClick().then(...): the sign-in succeeded
AuthResolved ==
  /\ authPending > 0
  /\ authPending' = authPending - 1
  /\ isSignedIn' = TRUE
  /\ apiSign' = TRUE
  /\ authOk' = authOk + 1
  /\ fetchEvents
  /\ UNCHANGED <<apiCalendar, events, authCalls, authFailed>>
  /\ UNCHANGED dateVars
  /\ UNCHANGED <<researchVars, serviceVars, viewVars>>

\* the sign-in failure handled like a success (.finally instead of .then)
AuthRejected_signsIn ==
  /\ authPending > 0
  /\ authPending' = authPending - 1
  /\ authFailed' = authFailed + 1
  /\ isSignedIn' = TRUE
  /\ fetchEvents
  /\ UNCHANGED <<apiCalendar, apiSign, events, authCalls, authOk>>
  /\ UNCHANGED dateVars
  /\ UNCHANGED <<researchVars, serviceVars, viewVars>>

\* handleAuthClick().catch(console.error): the sign-in failed
AuthRejected ==
  /\ authPending > 0
  /\ authPending' = authPending - 1
  /\ authFailed' = authFailed + 1
  /\ UNCHANGED <<apiCalendar, apiSign, isSignedIn, events, listPending,
                 authCalls, authOk, fetchCalls>>
  /\ UNCHANGED dateVars
  /\ UNCHANGED <<researchVars, serviceVars, viewVars>>

\* fetchEvents after its await: setEvents(response.result.items)
FetchEventsOk ==
  /\ listPending > 0
  /\ listPending' = listPending - 1
  /\ \E items \in ItemLists : events' = items
  /\ UNCHANGED <<apiCalendar, apiSign, isSignedIn, authPending,
                 authCalls, authOk, authFailed, fetchCalls>>
  /\ UNCHANGED dateVars
  /\ UNCHANGED <<researchVars, serviceVars, viewVars>>

\* fetchEvents: listUpcomingEvents threw, the error is logged
FetchEventsFailed ==
  /\ listPending > 0
  /\ listPending' = listPending - 1
  /\ UNCHANGED <<apiCalendar, apiSign, isSignedIn, events, authPending,
                 authCalls, authOk, authFailed, fetchCalls>>
  /\ UNCHANGED dateVars
  /\ UNCHANGED <<researchVars, serviceVars, viewVars>>

\* the calendar grid is rendered
GridVisible == isSignedIn /\ ~showResults /\ ~isCalendarCollapsed

\* handleWeekSelect with the day selection left in place
handleWeekSelect_keepDay(date) ==
  LET weekStart == startOfWeek(date)
      weekDays == eachDayOfInterval(weekStart, endOfWeek(date))
  IN /\ selectedWeek' = weekStart
     /\ selectedDate' = date
     /\ selectedWeekEvents' =
          SelectSeq(events, LAMBDA event :
                   \E k \in 1..Len(weekDays) : isSameDay(event.start, weekDays[k]))
     /\ selectedDayEvents' = selectedDayEvents
     /\ isCalendarCollapsed' = TRUE

handleDateSelect(date) ==
  /\ selectedDate' = date
  /\ selectedWeek' = NoDate
  /\ selectedDayEvents' = SelectSeq(events, LAMBDA event : isSameDay(event.start, date))
  /\ selectedWeekEvents' = <<>>
  /\ isCalendarCollapsed' = TRUE

handleWeekSelect(date) ==
  LET weekStart == startOfWeek(date)
      weekDays == eachDayOfInterval(weekStart, endOfWeek(date))
  IN /\ selectedWeek' = weekStart
     /\ selectedDate' = date
     /\ selectedWeekEvents' =
          SelectSeq(events, LAMBDA event :
                   \E k \in 1..Len(weekDays) : isSameDay(event.start, weekDays[k]))
     /\ selectedDayEvents' = <<>>
     /\ isCalendarCollapsed' = TRUE

\* CalendarGrid handleDayClick: a click on a day of the grid
handleDayClick(date, shiftKey) ==
  /\ GridVisible
  /\ IF shiftKey THEN handleWeekSelect(date) ELSE handleDateSelect(date)
  /\ lastClick' = [kind |-> IF shiftKey THEN "week" ELSE "day", date |-> date,
                   hadDay |-> Len(selectedDayEvents) > 0,
                   hadWeek |-> Len(selectedWeekEvents) > 0]
  /\ UNCHANGED signVars
  /\ UNCHANGED <<researchVars, serviceVars, viewVars>>

getDisplayedEvents ==
  IF Len(selectedWeekEvents) > 0 THEN selectedWeekEvents ELSE selectedDayEvents

\* the Show/Hide Calendar button, rendered while events are displayed
toggleCalendarView ==
  /\ isSignedIn /\ ~showResults
  /\ Len(getDisplayedEvents) > 0
  /\ isCalendarCollapsed' = ~isCalendarCollapsed
  /\ UNCHANGED <<selectedDate, selectedWeek, selectedDayEvents, selectedWeekEvents,
                 lastClick>>
  /\ UNCHANGED signVars
  /\ UNCHANGED <<researchVars, serviceVars, viewVars>>

DayClick == \E k \in 1..Len(calendarDays) : handleDayClick(calendarDays[k], FALSE)
WeekClick == \E k \in 1..Len(calendarDays) : handleDayClick(calendarDays[k], TRUE)

\* ------------------------------------------------------------ progress bar
\* useState(0), as a fraction
ZeroWidth == [num |-> 0, den |-> 1]

\* (loadingState.progress / loadingState.total) * 100, as a fraction
targetWidth(state) == [num |-> state.progress * 100, den |-> state.total]

\* a > b for two fractions
Wider(a, b) == a.num * b.den > b.num * a.den

\* the effect setting the width to the target whatever the width was
ProgressEffect_follows(prev, state) ==
  IF state # Null THEN targetWidth(state) ELSE ZeroWidth

\* ExaResults, the effect on [loadingState]: the width moves up to the target
\* and is reset when there is no loading state
ProgressEffect(prev, state) ==
  IF state # Null
  THEN IF Wider(targetWidth(state), prev) THEN targetWidth(state) ELSE prev
  ELSE ZeroWidth

\* ExaResults is not mounted
ViewInit == progressWidth = ZeroWidth

\* progressWidth after the render that follows a change of loadingState or
\* showResults: ExaResults is mounted while showResults is true, a new mount
\* starts from useState(0)
ProgressWidthRendered ==
  IF showResults'
  THEN ProgressEffect(IF showResults THEN progressWidth ELSE ZeroWidth, loadingState')
  ELSE ZeroWidth

\* ------------------------------------------------------ attendee selection
\* `${eventId}-${attendee.email}`
AttendeeKey(eventId, email) == eventId \o <<"-">> \o email

\* Map.prototype.set: a new key is appended, an existing key keeps its place
MapSet(m, key, entry) ==
  IF \E k \in 1..Len(m) : m[k].key = key
  THEN [k \in 1..Len(m) |-> IF m[k].key = key THEN entry ELSE m[k]]
  ELSE Append(m, entry)

\* Map.prototype.delete
MapDelete(m, key) == SelectSeq(m, LAMBDA e : e.key # key)

\* enhancedAttendees[email]
Enhanced(email) ==
  IF \E e \in enhancedAttendees : e.email = email
  THEN CHOOSE e \in enhancedAttendees : e.email = email
  ELSE Null

\* setEnhancedAttendees(prev => ({...prev, [email]: {...attendee, ...details}}))
SetEnhanced(prev, email, details) ==
  {e \in prev : e.email # email}
    \cup {[email |-> email, firstName |-> details.firstName, lastName |-> details.lastName]}

\* fetchContactDetails, the fallback built from the email
FallbackDetails(email) ==
  IF Includes(email, <<"@">>)
  THEN LET namePart == Split(email, <<"@">>)[1]
           names == SplitAny(namePart, {".", "+"})
       IN [firstName |-> Capitalize(names[1]),
           lastName |-> IF Len(names) > 1 /\ Len(names[2]) > 0
                        THEN Capitalize(names[2]) ELSE <<>>]
  ELSE Null

\* a profile the People API can answer for a contact
ProfileDetails == [firstName |-> <<"A", "n">>, lastName |-> <<"L", "i">>]

\* what fetchContactDetails can return once apiCalendar.sign is set: null
\* (the gapi client did not load), the profile found, or the fallback
ContactOutcomes(email) == {Null, ProfileDetails, FallbackDetails(email)}

\* handleAttendeeSelect deselecting in the key set only
SelectCall_keepsEntry(st, eventId, attendee) ==
  LET attendeeKey == AttendeeKey(eventId, attendee.email)
      entry == [key |-> attendeeKey, eventId |-> eventId, attendee |-> attendee]
      added == selectedAttendees \cup {attendeeKey}
      addedDetails == MapSet(selectedAttendeesDetails, attendeeKey, entry)
  IN IF attendeeKey \in selectedAttendees
     THEN [st EXCEPT !.sel = selectedAttendees \ {attendeeKey}]
     ELSE IF Enhanced(attendee.email) # Null
     THEN [st EXCEPT !.sel = added, !.det = addedDetails]
     ELSE IF ~apiSign
     THEN \* fetchContactDetails returns null at once
          [st EXCEPT !.sel = added, !.det = addedDetails,
                     !.called = Append(@, attendee.email)]
     ELSE [st EXCEPT !.pending = Append(@, [attendee |-> attendee,
                                            newSelectedAttendees |-> added,
                                            newSelectedAttendeesDetails |-> addedDetails]),
                     !.called = Append(@, attendee.email)]

\* the body of handleAttendeeSelect up to its await; st collects the state
\* updates of the calls made in one event, the closure reads the state
\* rendered before the event
SelectCall(st, eventId, attendee) ==
  LET attendeeKey == AttendeeKey(eventId, attendee.email)
      entry == [key |-> attendeeKey, eventId |-> eventId, attendee |-> attendee]
      added == selectedAttendees \cup {attendeeKey}
      addedDetails == MapSet(selectedAttendeesDetails, attendeeKey, entry)
  IN IF attendeeKey \in selectedAttendees
     THEN [st EXCEPT !.sel = selectedAttendees \ {attendeeKey},
                     !.det = MapDelete(selectedAttendeesDetails, attendeeKey)]
     ELSE IF Enhanced(attendee.email) # Null
     THEN [st EXCEPT !.sel = added, !.det = addedDetails]
     ELSE IF ~apiSign
     THEN \* fetchContactDetails returns null at once
          [st EXCEPT !.sel = added, !.det = addedDetails,
                     !.called = Append(@, attendee.email)]
     ELSE [st EXCEPT !.pending = Append(@, [attendee |-> attendee,
                                            newSelectedAttendees |-> added,
                                            newSelectedAttendeesDetails |-> addedDetails]),
                     !.called = Append(@, attendee.email)]

SelState == [sel |-> selectedAttendees, det |-> selectedAttendeesDetails,
             pending |-> pendingSelects, called |-> contactCalls]

\* one user gesture calling handleAttendeeSelect `calls` times
handleAttendeeSelect(eventId, attendee, calls) ==
  LET st1 == SelectCall(SelState, eventId, attendee)
      st == IF calls = 2 THEN SelectCall(st1, eventId, attendee) ELSE st1
      key == AttendeeKey(eventId, attendee.email)
  IN /\ clicks + calls <= MaxClicks
     /\ clicks' = clicks + calls
     /\ selectedAttendees' = st.sel
     /\ selectedAttendeesDetails' = st.det
     /\ pendingSelects' = st.pending
     /\ contactCalls' = st.called
     /\ expectedSel' = IF key \in expectedSel THEN expectedSel \ {key}
                       ELSE expectedSel \cup {key}
     /\ UNCHANGED enhancedAttendees

\* EventCard: a click on the row of an attendee (1 call), or on its checkbox,
\* whose onChange and the row's onClick both call onAttendeeSelect (2 calls)
AttendeeClick ==
  /\ isSignedIn /\ ~showResults
  /\ \E k \in 1..Len(getDisplayedEvents) :
       LET event == getDisplayedEvents[k]
       IN \E a \in 1..Len(event.attendees) : \E calls \in {1, 2} :
            handleAttendeeSelect(event.id, event.attendees[a], calls)
  /\ UNCHANGED now
  /\ UNCHANGED <<calVars, runVars, serviceVars, viewVars>>

\* the remove button of a selected attendee
ChipRemove ==
  /\ isSignedIn
  /\ \E k \in 1..Len(selectedAttendeesDetails) :
       handleAttendeeSelect(selectedAttendeesDetails[k].eventId,
                            selectedAttendeesDetails[k].attendee, 1)
  /\ UNCHANGED now
  /\ UNCHANGED <<calVars, runVars, serviceVars, viewVars>>

\* what the user can type into the manual attendee form
ManualInputs == {<<"C", " ", "D">>, <<" ">>}

\* '@manual.entry'
ManualDomain ==
  <<"@", "m", "a", "n", "u", "a", "l", ".", "e", "n", "t", "r", "y">>

\* onSubmit of the manual attendee form
ManualAdd ==
  /\ isSignedIn
  /\ now < MaxManual
  /\ \E value \in ManualInputs :
       /\ Len(Trim(value)) > 0
       /\ LET name == Trim(value)
              fakeEventId == <<"m", "a", "n", "u", "a", "l", "-">> \o ToDecimal(now)
              attendee == [email |-> DotSpaces(toLowerCase(name)) \o ManualDomain,
                           displayName |-> name]
          IN handleAttendeeSelect(fakeEventId, attendee, 1)
  /\ now' = now + 1
  /\ UNCHANGED <<calVars, runVars, serviceVars, viewVars>>

\* handleAttendeeSelect after its await: fetchContactDetails has returned
SelectResumed ==
  /\ \E k \in 1..Len(pendingSelects) :
       LET call == pendingSelects[k]
       IN \E details \in ContactOutcomes(call.attendee.email) :
            /\ enhancedAttendees' =
                 IF details # Null
                 THEN SetEnhanced(enhancedAttendees, call.attendee.email, details)
                 ELSE enhancedAttendees
            /\ selectedAttendees' = call.newSelectedAttendees
            /\ selectedAttendeesDetails' = call.newSelectedAttendeesDetails
            /\ pendingSelects' = SubSeq(pendingSelects, 1, k - 1)
                                   \o SubSeq(pendingSelects, k + 1, Len(pendingSelects))
  /\ UNCHANGED <<contactCalls, clicks, now, expectedSel>>
  /\ UNCHANGED <<calVars, runVars, serviceVars, viewVars>>

\* the Clear All button, shown while attendees are selected
ClearAll ==
  /\ isSignedIn
  /\ Len(selectedAttendeesDetails) > 0
  /\ selectedAttendees' = {}
  /\ selectedAttendeesDetails' = <<>>
  /\ showResults' = FALSE
  /\ searchResults' = <<>>
  /\ expectedSel' = {}
  /\ UNCHANGED <<enhancedAttendees, pendingSelects, contactCalls, clicks, now>>
  /\ UNCHANGED <<isSearching, summaries, loadingState, runPc, attendees, results,
                 summariesResults, outstanding, searchCalls, summaryCalls, runs>>
  /\ UNCHANGED <<calVars, serviceVars>>
  /\ progressWidth' = ProgressWidthRendered

\* ---------------------------------------------------------------- services
\* results the Exa API can answer with
ExaResult1 == [title |-> <<"T">>, url |-> <<"u", "1">>, text |-> <<"x">>]
ExaResult2 == [title |-> <<"V">>, url |-> <<"u", "2">>, text |-> <<"y">>]

\* the body of a response that is not JSON
Unparsable == [unparsable |-> TRUE]

\* the reason phrase of a status
StatusText(status) ==
  IF status = 200 THEN <<"O", "K">>
  ELSE IF status = 429 THEN <<"T", "o", "o", " ", "M", "a", "n", "y", " ", "R", "e", "q", "u", "e", "s", "t",
    "s">>
  ELSE IF status = 502 THEN <<"B", "a", "d", " ", "G", "a", "t", "e", "w", "a", "y">>
  ELSE <<"I", "n", "t", "e", "r", "n", "a", "l", " ", "S", "e", "r", "v", "e", "r", " ",
    "E", "r", "r", "o", "r">>

\* JSON.stringify of an error body
ErrorJson(body) == <<"{", "\"", "e", "r", "r", "o", "r", "\"", ":", "\"">> \o body.error \o <<"\"", "}">>

\* NextResponse.json(data): the response of a route that succeeded
JsonOk(data) ==
  [kind |-> "response", ok |-> TRUE, status |-> 200, statusText |-> StatusText(200),
   body |-> data]

\* NextResponse.json({ error }, { status })
JsonError(message, status) ==
  [kind |-> "response", ok |-> FALSE, status |-> status,
   statusText |-> StatusText(status), body |-> [error |-> message],
   text |-> ErrorJson([error |-> message])]

\* what the fetch of https://api.exa.ai/search can do during a research run
ExaResponses ==
  {[kind |-> "answer", ok |-> TRUE, results |-> <<ExaResult1, ExaResult2>>],
   [kind |-> "answer", ok |-> FALSE, status |-> 429, errorText |-> <<"s", "l", "o", "w", " ", "d", "o", "w", "n">>]}

\* every way the search route can go: no API key, the fetch throws, an answer
ExaOutcomes == ExaResponses \cup {[kind |-> "nokey"], [kind |-> "throws"]}

\* POST /api/exa/search
ExaSearchRoute(name, exa) ==
  IF exa.kind = "nokey" THEN JsonError(<<"A", "P", "I", " ", "k", "e", "y", " ", "n", "o", "t", " ", "c", "o", "n", "f",
    "i", "g", "u", "r", "e", "d">>, 500)
  ELSE IF exa.kind = "throws" THEN JsonError(<<"F", "a", "i", "l", "e", "d", " ", "t", "o", " ", "m", "a", "k", "e", " ", "E",
    "x", "a", " ", "A", "P", "I", " ", "r", "e", "q", "u", "e", "s", "t">>, 500)
  ELSE IF exa.ok
  THEN JsonOk([name |-> name,
               searchResults |-> [k \in 1..Len(exa.results) |->
                                    [title |-> exa.results[k].title,
                                     url |-> exa.results[k].url,
                                     text |-> exa.results[k].text]],
               error |-> NoError])
  ELSE JsonError(<<"E", "x", "a", " ", "A", "P", "I", " ", "e", "r", "r", "o", "r", ":", " ">> \o exa.errorText, exa.status)

\* the fetch of a route rejects: the network is down
FetchRejected == [kind |-> "rejected", message |-> <<"F", "a", "i", "l", "e", "d", " ", "t", "o", " ", "f", "e", "t", "c", "h">>]

\* an answer that is not the route's: an error page, or a 200 without JSON
BadGateway ==
  [kind |-> "response", ok |-> FALSE, status |-> 502, statusText |-> StatusText(502),
   body |-> Unparsable, text |-> <<"<", "h", "t", "m", "l", ">">>]
NotJson ==
  [kind |-> "response", ok |-> TRUE, status |-> 200, statusText |-> StatusText(200),
   body |-> Unparsable, text |-> <<"<", "h", "t", "m", "l", ">">>]

\* what the client's fetch of a route can give, the route answering response
Fetched(response) == {response, FetchRejected, BadGateway, NotJson}

\* the message of the SyntaxError response.json() throws
JsonSyntaxError == <<"U", "n", "e", "x", "p", "e", "c", "t", "e", "d", " ", "t", "o", "k", "e", "n",
    " ", "<", " ", "i", "n", " ", "J", "S", "O", "N">>

\* a promise that rejected
Rejected(message) == [rejected |-> TRUE, message |-> message]

\* exaService searchPerson, rethrowing what it caught
searchPerson_rethrows(name, response) ==
  IF response.kind = "rejected" THEN Rejected(response.message)
  ELSE IF ~response.ok THEN Rejected(<<"A", "P", "I", " ", "e", "r", "r", "o", "r", ":", " ">> \o response.text)
  ELSE IF response.body = Unparsable THEN Rejected(JsonSyntaxError)
  ELSE response.body

\* exaService searchPerson, given what its fetch gave
searchPerson(name, response) ==
  LET caught(message) ==
        [name |-> name, searchResults |-> <<>>, error |-> Some(message)]
  IN IF response.kind = "rejected" THEN caught(response.message)
     ELSE IF ~response.ok THEN caught(<<"A", "P", "I", " ", "e", "r", "r", "o", "r", ":", " ">> \o response.text)
     ELSE IF response.body = Unparsable THEN caught(JsonSyntaxError)
     ELSE response.body

\* `[Source ${index + 1}]`
SourceTag(k) == <<"[", "S", "o", "u", "r", "c", "e", " ">> \o ToDecimal(k) \o <<"]">>

\* summary route: the numbered list of the sources in the prompt
sourcesList(personInfo) ==
  Join([k \in 1..Len(personInfo.searchResults) |->
          SourceTag(k) \o <<" ">> \o personInfo.searchResults[k].title
            \o <<" ", "(">> \o personInfo.searchResults[k].url \o <<")">>],
       <<"\n">>)

\* summary route: the texts of the sources under their markers
combinedText(personInfo) ==
  Join([k \in 1..Len(personInfo.searchResults) |->
          SourceTag(k) \o <<"\n">> \o personInfo.searchResults[k].text],
       <<"\n", "\n">>)

\* `... error: ${response.status} ${response.statusText}`
StatusMessage(prefix, response) ==
  prefix \o ToDecimal(response.status) \o <<" ">> \o response.statusText

\* POST /api/summary, given what the chat completion answered
SummaryRoute(personInfo, openai) ==
  IF openai.kind = "throws" THEN JsonError(openai.message, 500)
  ELSE IF openai.ok
  THEN JsonOk([name |-> personInfo.name,
               summary |-> openai.content,
               sources |-> Some([k \in 1..Len(personInfo.searchResults) |->
                                   [title |-> personInfo.searchResults[k].title,
                                    url |-> personInfo.searchResults[k].url]]),
               error |-> NoError])
  ELSE JsonError(IF openai.message # None /\ Len(openai.message[1]) > 0
                 THEN openai.message[1]
                 ELSE StatusMessage(<<"O", "p", "e", "n", "A", "I", " ", "A", "P", "I", " ", "e", "r", "r", "o", "r",
    ":", " ">>, openai),
                 500)

\* summaryService generatePersonSummary, given what its fetch gave
generatePersonSummary(personInfo, response) ==
  LET caught(message) ==
        [name |-> personInfo.name, summary |-> <<>>, sources |-> None,
         error |-> Some(message)]
      errorData == IF response.body = Unparsable THEN Null ELSE response.body
  IN IF response.kind = "rejected" THEN caught(response.message)
     ELSE IF ~response.ok
          THEN caught(IF errorData # Null /\ Len(errorData.error) > 0
                      THEN errorData.error
                      ELSE StatusMessage(<<"A", "P", "I", " ", "e", "r", "r", "o", "r", ":", " ">>, response))
     ELSE IF response.body = Unparsable THEN caught(JsonSyntaxError)
     ELSE response.body

\* the chat completion answers with a summary
Completion(content) == [kind |-> "answer", ok |-> TRUE, content |-> content]

\* the chat completion refuses: its error message, if the body carries one
Refusal(status, message) ==
  [kind |-> "answer", ok |-> FALSE, status |-> status,
   statusText |-> StatusText(status), message |-> message]

\* what the chat completion can answer during a research run
OpenAiResponses == {Completion(<<"s", " ">> \o SourceTag(1)),
                    Refusal(429, Some(<<"q", "u", "o", "t", "a">>))}

\* every way the summary route can go
OpenAiOutcomes ==
  OpenAiResponses \cup {Refusal(500, None), Refusal(500, Some(<<>>)),
                        [kind |-> "throws", message |-> <<"f", "e", "t", "c", "h", " ", "f", "a", "i", "l", "e", "d">>]}

\* ------------------------------------------- a call of a client service
\* the names a client service is called with
ServiceNames == {<<>>, <<"A">>, <<"B", "o">>}

\* the records generatePersonSummary is called with
PersonInfos ==
  {[name |-> name, searchResults |-> list, error |-> NoError] :
     name \in ServiceNames, list \in {<<>>, <<ExaResult1>>}}

\* the name a call is about
RequestedName == IF callFn = "searchPerson" THEN callInput ELSE callInput.name

CallInit ==
  /\ callPc = "idle"
  /\ callFn = "none"
  /\ callInput = Null
  /\ callResponse = Null
  /\ callResult = Null

\* searchPerson(name) or generatePersonSummary(personInfo) is called
ServiceCalled ==
  /\ callPc \in {"idle", "settled"}
  /\ \/ callFn' = "searchPerson" /\ callInput' \in ServiceNames
     \/ callFn' = "generatePersonSummary" /\ callInput' \in PersonInfos
  /\ callPc' = "fetch"
  /\ callResponse' = Null
  /\ callResult' = Null
  /\ UNCHANGED <<calVars, selVars, runVars, docVars, sumVars, lookupVars,
                 notesVars, viewVars>>

\* the route runs and the fetch of the client service settles
ServiceFetched ==
  /\ callPc = "fetch"
  /\ IF callFn = "searchPerson"
     THEN \E exa \in ExaOutcomes :
            callResponse' \in Fetched(ExaSearchRoute(callInput, exa))
     ELSE \E openai \in OpenAiOutcomes :
            callResponse' \in Fetched(SummaryRoute(callInput, openai))
  /\ callPc' = "fetched"
  /\ UNCHANGED <<callFn, callInput, callResult>>
  /\ UNCHANGED <<calVars, selVars, runVars, docVars, sumVars, lookupVars,
                 notesVars, viewVars>>

\* the rest of the client service runs and its promise settles
ServiceSettled ==
  /\ callPc = "fetched"
  /\ callResult' = IF callFn = "searchPerson"
                   THEN searchPerson(callInput, callResponse)
                   ELSE generatePersonSummary(callInput, callResponse)
  /\ callPc' = "settled"
  /\ UNCHANGED <<callFn, callInput, callResponse>>
  /\ UNCHANGED <<calVars, selVars, runVars, docVars, sumVars, lookupVars,
                 notesVars, viewVars>>

ServiceNext ==
  \/ ServiceCalled
  \/ ServiceFetched
  \/ ServiceSettled

\* ------------------------------------------------------------ research run
\* handleContinue: the name searched for an attendee
AttendeeName(attendee) ==
  LET enhanced == Enhanced(attendee.email)
  IN IF enhanced # Null /\ Len(enhanced.firstName) > 0 /\ Len(enhanced.lastName) > 0
     THEN enhanced.firstName \o <<" ">> \o enhanced.lastName
     ELSE IF Len(attendee.displayName) > 0
          THEN attendee.displayName
          ELSE Split(attendee.email, <<"@">>)[1]

\* the loading state with its progress one ahead
Loading_ahead(stage, person, progress, total) ==
  [stage |-> stage, person |-> person, progress |-> progress + 1, total |-> total]

\* the argument of setLoadingState
Loading(stage, person, progress, total) ==
  [stage |-> stage, person |-> person, progress |-> progress, total |-> total]

\* the Continue button left enabled while a run is in progress
Continue_whileSearching ==
  /\ isSignedIn
  /\ Len(selectedAttendeesDetails) > 0    \* button rendered; size === 0 returns
  /\ runs < MaxRuns
  /\ runs' = runs + 1
  /\ isSearching' = TRUE
  /\ showResults' = TRUE
  /\ attendees' = [k \in 1..Len(selectedAttendeesDetails) |->
                     [name |-> AttendeeName(selectedAttendeesDetails[k].attendee),
                      email |-> selectedAttendeesDetails[k].attendee.email]]
  /\ loadingState' = Loading("searching", attendees'[1].name, 0, Len(attendees'))
  /\ results' = <<>>
  /\ summariesResults' = <<>>
  /\ searchCalls' = <<>>
  /\ summaryCalls' = <<>>
  /\ runPc' = "searchDelay"
  /\ UNCHANGED <<searchResults, summaries, outstanding>>
  /\ UNCHANGED <<calVars, selVars, serviceVars>>
  /\ progressWidth' = ProgressWidthRendered

\* the Continue button: handleContinue up to the first delay of the search loop
Continue ==
  /\ isSignedIn
  /\ Len(selectedAttendeesDetails) > 0    \* button rendered; size === 0 returns
  /\ ~isSearching                         \* disabled={isSearching}
  /\ runs < MaxRuns
  /\ runs' = runs + 1
  /\ isSearching' = TRUE
  /\ showResults' = TRUE
  /\ attendees' = [k \in 1..Len(selectedAttendeesDetails) |->
                     [name |-> AttendeeName(selectedAttendeesDetails[k].attendee),
                      email |-> selectedAttendeesDetails[k].attendee.email]]
  /\ loadingState' = Loading("searching", attendees'[1].name, 0, Len(attendees'))
  /\ results' = <<>>
  /\ summariesResults' = <<>>
  /\ searchCalls' = <<>>
  /\ summaryCalls' = <<>>
  /\ runPc' = "searchDelay"
  /\ UNCHANGED <<searchResults, summaries, outstanding>>
  /\ UNCHANGED <<calVars, selVars, serviceVars>>
  /\ progressWidth' = ProgressWidthRendered

\* the search loop with its bound one too low
SearchLoopContinues_short(i) == i < Len(attendees) - 1

\* the search loop runs while i < attendees.length
SearchLoopContinues(i) == i < Len(attendees)

\* the searches of all attendees started together, as searchAllAttendees does
SearchIssue_all ==
  /\ runPc = "searchDelay"
  /\ searchCalls' = searchCalls \o [k \in 1..(Len(attendees) - Len(results)) |->
                                      attendees[Len(results) + k].name]
  /\ outstanding' = outstanding \cup {[fn |-> "searchPerson", i |-> i] :
                                         i \in (Len(results) + 1)..Len(attendees)}
  /\ runPc' = "searchCall"
  /\ UNCHANGED <<isSearching, searchResults, showResults, summaries, loadingState,
                 attendees, results, summariesResults, summaryCalls, runs>>
  /\ UNCHANGED <<calVars, selVars, serviceVars, viewVars>>

\* the search loop: the delay is over, searchPerson(attendees[i].name) is called
SearchIssue ==
  /\ runPc = "searchDelay"
  /\ LET i == Len(results) + 1
     IN /\ searchCalls' = Append(searchCalls, attendees[i].name)
        /\ outstanding' = outstanding \cup {[fn |-> "searchPerson", i |-> i]}
  /\ runPc' = "searchCall"
  /\ UNCHANGED <<isSearching, searchResults, showResults, summaries, loadingState,
                 attendees, results, summariesResults, summaryCalls, runs>>
  /\ UNCHANGED <<calVars, selVars, serviceVars, viewVars>>

\* the search loop repeating a search that failed
SearchReturn_retry ==
  /\ runPc = "searchCall"
  /\ \E call \in outstanding : \E exa \in ExaResponses :
       LET name == attendees[call.i].name
           result == searchPerson(name, ExaSearchRoute(name, exa))
       IN /\ call.fn = "searchPerson"
          /\ results' = IF result.error # NoError THEN results ELSE Append(results, result)
          /\ outstanding' = outstanding \ {call}
  /\ IF SearchLoopContinues(Len(results'))
     THEN /\ loadingState' = Loading("searching", attendees[Len(results') + 1].name,
                                     Len(results'), Len(attendees))
          /\ runPc' = "searchDelay"
     ELSE /\ loadingState' = Loading("searching", attendees[Len(attendees)].name,
                                     Len(attendees), Len(attendees))
          /\ runPc' = "searchWait"
  /\ UNCHANGED <<isSearching, searchResults, showResults, summaries,
                 attendees, summariesResults, searchCalls, summaryCalls, runs>>
  /\ UNCHANGED <<calVars, selVars, serviceVars>>
  /\ progressWidth' = ProgressWidthRendered

\* the search loop: searchPerson has returned, results.push(result)
SearchReturn ==
  /\ runPc = "searchCall"
  /\ \E call \in outstanding : \E exa \in ExaResponses :
       LET name == attendees[call.i].name
           result == searchPerson(name, ExaSearchRoute(name, exa))
       IN /\ call.fn = "searchPerson"
          /\ results' = Append(results, result)
          /\ outstanding' = outstanding \ {call}
  /\ IF SearchLoopContinues(Len(results'))
     THEN /\ loadingState' = Loading("searching", attendees[Len(results') + 1].name,
                                     Len(results'), Len(attendees))
          /\ runPc' = "searchDelay"
     ELSE /\ loadingState' = Loading("searching", attendees[Len(attendees)].name,
                                     Len(attendees), Len(attendees))
          /\ runPc' = "searchWait"
  /\ UNCHANGED <<isSearching, searchResults, showResults, summaries,
                 attendees, summariesResults, searchCalls, summaryCalls, runs>>
  /\ UNCHANGED <<calVars, selVars, serviceVars>>
  /\ progressWidth' = ProgressWidthRendered

\* after the search loop: setSearchResults(results), the summary stage begins
SearchStageDone ==
  /\ runPc = "searchWait"
  /\ searchResults' = results
  /\ loadingState' = Loading("summarizing", results[1].name, 0, Len(results))
  /\ runPc' = "summaryDelay"
  /\ UNCHANGED <<isSearching, showResults, summaries, attendees, results,
                 summariesResults, outstanding, searchCalls, summaryCalls, runs>>
  /\ UNCHANGED <<calVars, selVars, serviceVars>>
  /\ progressWidth' = ProgressWidthRendered

\* the summary loop: generatePersonSummary(results[i]) is called
SummaryIssue ==
  /\ runPc = "summaryDelay"
  /\ LET i == Len(summariesResults) + 1
     IN /\ summaryCalls' = Append(summaryCalls, results[i].name)
        /\ outstanding' = outstanding \cup {[fn |-> "generatePersonSummary", i |-> i]}
  /\ runPc' = "summaryCall"
  /\ UNCHANGED <<isSearching, searchResults, showResults, summaries, loadingState,
                 attendees, results, summariesResults, searchCalls, runs>>
  /\ UNCHANGED <<calVars, selVars, serviceVars, viewVars>>

\* the summary loop: generatePersonSummary has returned
SummaryReturn ==
  /\ runPc = "summaryCall"
  /\ \E call \in outstanding : \E openai \in OpenAiResponses :
       LET summary == generatePersonSummary(results[call.i],
                                            SummaryRoute(results[call.i], openai))
       IN /\ call.fn = "generatePersonSummary"
          /\ summariesResults' = Append(summariesResults, summary)
          /\ outstanding' = outstanding \ {call}
  /\ IF Len(summariesResults') < Len(results)
     THEN /\ loadingState' = Loading("summarizing", results[Len(summariesResults') + 1].name,
                                     Len(summariesResults'), Len(results))
          /\ runPc' = "summaryDelay"
     ELSE /\ loadingState' = Loading("summarizing", results[Len(results)].name,
                                     Len(results), Len(results))
          /\ runPc' = "summaryWait"
  /\ UNCHANGED <<isSearching, searchResults, showResults, summaries,
                 attendees, results, searchCalls, summaryCalls, runs>>
  /\ UNCHANGED <<calVars, selVars, serviceVars>>
  /\ progressWidth' = ProgressWidthRendered

\* after the summary loop: setSummaries(summariesResults)
SummaryStageDone ==
  /\ runPc = "summaryWait"
  /\ summaries' = summariesResults
  /\ runPc' = "finally"
  /\ UNCHANGED <<isSearching, searchResults, showResults, loadingState, attendees,
                 results, summariesResults, outstanding, searchCalls, summaryCalls, runs>>
  /\ UNCHANGED <<calVars, selVars, serviceVars, viewVars>>

\* the finally block: the loading indicator is cleared
RunFinally ==
  /\ runPc = "finally"
  /\ isSearching' = FALSE
  /\ loadingState' = Null
  /\ runPc' = "idle"
  /\ UNCHANGED <<searchResults, showResults, summaries, attendees, results,
                 summariesResults, outstanding, searchCalls, summaryCalls, runs>>
  /\ UNCHANGED <<calVars, selVars, serviceVars>>
  /\ progressWidth' = ProgressWidthRendered

\* the pcs of handleContinue inside its try block
TryStages == {"searchDelay", "searchCall", "searchWait",
              "summaryDelay", "summaryCall", "summaryWait"}

\* an exception that leaves handleContinue without running the finally block
RunCaught_skipsFinally ==
  /\ runPc \in TryStages
  /\ runPc' = "idle"
  /\ outstanding' = {}
  /\ UNCHANGED <<isSearching, searchResults, showResults, summaries, loadingState,
                 attendees, results, summariesResults, searchCalls, summaryCalls, runs>>
  /\ UNCHANGED <<calVars, selVars, serviceVars, viewVars>>

\* a statement of the try block throws: the catch logs the error and the
\* finally block follows
RunCaught ==
  /\ runPc \in TryStages
  /\ runPc' = "finally"
  /\ outstanding' = {}
  /\ UNCHANGED <<isSearching, searchResults, showResults, summaries, loadingState,
                 attendees, results, summariesResults, searchCalls, summaryCalls, runs>>
  /\ UNCHANGED <<calVars, selVars, serviceVars, viewVars>>

\* ------------------------------------------------------------ docs service
\* `${personSummary.name} ${new Date().toLocaleDateString()} - Meeting Notes\n`
TitleText(name, date) == name \o <<" ">> \o date \o <<" ", "-", " ", "M", "e", "e", "t", "i", "n", "g", " ", "N", "o", "t", "e", "s",
    "\n">>
keyTakeawaysText == <<"K", "e", "y", " ", "T", "a", "k", "e", "a", "w", "a", "y", "s", "\n", "\n">>
bulletPoints == <<"*", " ", "\n", "*", " ", "\n", "*", " ", "\n", "\n">>
actionItemsText == <<"A", "c", "t", "i", "o", "n", " ", "I", "t", "e", "m", "s", "\n", "\n">>
actionBullets == <<"*", " ", "\n", "*", " ", "\n", "\n">>
summaryHeaderText == <<"P", "r", "o", "f", "e", "s", "s", "i", "o", "n", "a", "l", " ", "S", "u", "m",
    "m", "a", "r", "y", "\n", "\n">>
sourcesHeaderText == <<"S", "o", "u", "r", "c", "e", "s", "\n", "\n">>

InsertText(index, text) == [type |-> "insertText", index |-> index, text |-> text]
UpdateParagraphStyle(startIndex, endIndex, style) ==
  [type |-> "updateParagraphStyle", startIndex |-> startIndex, endIndex |-> endIndex,
   namedStyleType |-> style]
UpdateTextStyle(startIndex, endIndex, url) ==
  [type |-> "updateTextStyle", startIndex |-> startIndex, endIndex |-> endIndex,
   link |-> url]

\* currentIndex advanced by one character too few
Advance_short(currentIndex, text) == currentIndex + Len(text) - 1

\* currentIndex += text.length
Advance(currentIndex, text) == currentIndex + Len(text)

\* personSummary.sources?.map(...) || []
DocSourcesList(personSummary) ==
  IF personSummary.sources = None THEN <<>>
  ELSE [k \in 1..Len(personSummary.sources[1]) |->
          [bullet |-> ToDecimal(k) \o <<".">>,
           text |-> personSummary.sources[1][k].title,
           url |-> personSummary.sources[1][k].url]]

RECURSIVE SourceRequests(_, _)
\* sourcesList.forEach: the bullet, the title and the link of every source
SourceRequests(list, currentIndex) ==
  IF Len(list) = 0 THEN <<>>
  ELSE LET source == list[1]
           bulletText == source.bullet \o <<" ">>
           sourceText == source.text \o <<"\n">>
           textIndex == Advance(currentIndex, bulletText)
       IN << InsertText(currentIndex, bulletText),
             InsertText(textIndex, sourceText),
             UpdateTextStyle(textIndex, textIndex + Len(source.text), source.url) >>
            \o SourceRequests(Tail(list), Advance(textIndex, sourceText))

\* createMeetingDoc: the requests of the batchUpdate
DocRequests(personSummary, date) ==
  LET titleText == TitleText(personSummary.name, date)
      summaryText == personSummary.summary \o <<"\n", "\n">>
      iTitle == 1
      iKey == Advance(iTitle, titleText)
      iBullets == Advance(iKey, keyTakeawaysText)
      iAction == Advance(iBullets, bulletPoints)
      iActionBullets == Advance(iAction, actionItemsText)
      iSummaryHeader == Advance(iActionBullets, actionBullets)
      iSummary == Advance(iSummaryHeader, summaryHeaderText)
      iSourcesHeader == Advance(iSummary, summaryText)
      iSources == Advance(iSourcesHeader, sourcesHeaderText)
  IN << InsertText(iTitle, titleText),
        UpdateParagraphStyle(iTitle, iTitle + Len(titleText), "HEADING_1"),
        InsertText(iKey, keyTakeawaysText),
        UpdateParagraphStyle(iKey, iKey + Len(keyTakeawaysText) - 1, "HEADING_2"),
        InsertText(iBullets, bulletPoints),
        InsertText(iAction, actionItemsText),
        UpdateParagraphStyle(iAction, iAction + Len(actionItemsText) - 1, "HEADING_2"),
        InsertText(iActionBullets, actionBullets),
        InsertText(iSummaryHeader, summaryHeaderText),
        UpdateParagraphStyle(iSummaryHeader,
                             iSummaryHeader + Len(summaryHeaderText) - 1, "HEADING_2"),
        InsertText(iSummary, summaryText),
        UpdateParagraphStyle(iSummary, iSummary + Len(summaryText), "NORMAL_TEXT"),
        InsertText(iSourcesHeader, sourcesHeaderText),
        UpdateParagraphStyle(iSourcesHeader,
                             iSourcesHeader + Len(sourcesHeaderText) - 1, "HEADING_2") >>
       \o SourceRequests(DocSourcesList(personSummary), iSources)

\* `https://docs.google.com/document/d/${documentId}/edit`
DocUrl(id) ==
  <<"h", "t", "t", "p", "s", ":", "/", "/", "d", "o", "c", "s", ".", "g", "o", "o",
    "g", "l", "e", ".", "c", "o", "m", "/", "d", "o", "c", "u", "m", "e", "n", "t",
    "/", "d", "/">>
    \o id \o <<"/", "e", "d", "i", "t">>


\* loadDocsApi: maxAttempts
maxAttempts == 50

NotAuthenticated == "Not authenticated with Google"
PleaseSignIn ==
  "Please ensure you are signed in to Google and have granted the necessary permissions"
GapiTimeout == "Timeout waiting for Google API client to load"
FailedToLoadDocs ==
  "Failed to load Google Docs API. Please ensure the API is enabled in your Google Cloud Console."
FailedToCreate == "Failed to create document"
FailedToUpdate == "Failed to update document"

\* the catch of createMeetingDoc rethrowing every error as it is
DocRejection_rethrown(message) == [status |-> "rejected", url |-> <<>>, message |-> message]

\* the catch of createMeetingDoc: what the promise rejects with
DocRejection(message) ==
  [status |-> "rejected", url |-> <<>>,
   message |-> IF message = NotAuthenticated THEN PleaseSignIn ELSE message]
DocPending == [status |-> "pending", url |-> <<>>, message |-> ""]
DocResolved(url) == [status |-> "resolved", url |-> url, message |-> ""]

\* the summaries Create Notes can be pressed for, and the dates of the day
DocSource1 == [title |-> <<"T">>, url |-> <<"u", "1">>]
DocSource2 == [title |-> <<>>, url |-> <<"u", "2">>]
DocSourceLists ==
  {None} \cup {Some(list) : list \in UNION {[1..n -> {DocSource1, DocSource2}] :
                                              n \in 0..MaxSources}}
DocSummaries ==
  {[name |-> name, summary |-> summary, sources |-> sources, error |-> NoError] :
     name \in {<<"A", " ", "L">>},
     summary \in {<<>>, <<"s", "\n", "t">>},
     sources \in DocSourceLists}
DocDates == {<<"1", "/", "5", "/", "2", "0", "2", "6">>, <<"1", "1", "/", "1", "5", "/", "2", "0", "2", "6">>}
DocumentIds == {<<"d", "1">>, <<"d", "2">>}

DocLogInit == [probes |-> 0, createSent |-> FALSE, createOk |-> FALSE,
               updateSent |-> FALSE, updateOk |-> FALSE, failed |-> FALSE,
               createdId |-> <<>>, hadToken |-> FALSE, clientSeen |-> FALSE]

\* the history of a call at its start
DocLogStart == [DocLogInit EXCEPT !.hadToken = authToken, !.clientSeen = gapiClient]

\* no call of createMeetingDoc has been made
DocIdle ==
  /\ docsLoaded = FALSE
  /\ docPc = "idle"
  /\ attempts = 0
  /\ docsCheckGapi = FALSE
  /\ docsVerified = FALSE
  /\ docInput = Null
  /\ documentId = <<>>
  /\ docRequests = <<>>
  /\ docResult = [status |-> "none", url |-> <<>>, message |-> ""]
  /\ docLog = DocLogInit

DocInit ==
  /\ gapiClient \in BOOLEAN
  /\ authToken \in BOOLEAN
  /\ DocIdle

\* createMeetingDoc after loadDocsApi: the token check and the create request
CreateStep(log) ==
  IF ~authToken
  THEN [pc |-> "idle", result |-> DocRejection(NotAuthenticated),
        log |-> [log EXCEPT !.failed = TRUE]]
  ELSE [pc |-> "create", result |-> DocPending, log |-> [log EXCEPT !.createSent = TRUE]]

\* loadDocsApi once the gapi client is there: the token check, then the load
\* of the Docs API unless window.gapi.client.docs exists
AfterGapiWait(log) ==
  IF ~authToken
  THEN [pc |-> "idle", result |-> DocRejection(NotAuthenticated),
        log |-> [log EXCEPT !.failed = TRUE]]
  ELSE IF ~docsLoaded
       THEN [pc |-> "loadDocs", result |-> DocPending, log |-> log]
       ELSE CreateStep(log)

\* the gapi script finishes loading
GapiClientLoads ==
  /\ ~gapiClient
  /\ gapiClient' = TRUE
  /\ UNCHANGED <<authToken, docsLoaded, docPc, attempts, docsCheckGapi, docsVerified, docInput, documentId,
                 docRequests, docResult, docLog>>
  /\ UNCHANGED <<calVars, selVars, runVars, sumVars, callVars, lookupVars,
                 notesVars, viewVars>>

\* the Google token is granted, or expires or is revoked
TokenChanges ==
  /\ authToken' = ~authToken
  /\ docLog' = IF docPc # "idle" /\ authToken' THEN [docLog EXCEPT !.hadToken = TRUE]
               ELSE docLog
  /\ UNCHANGED <<gapiClient, docsLoaded, docPc, attempts, docsCheckGapi, docsVerified, docInput,
                 documentId, docRequests, docResult>>
  /\ UNCHANGED <<calVars, selVars, runVars, sumVars, callVars, lookupVars,
                 notesVars, viewVars>>

\* createMeetingDoc(personSummary) is called
createMeetingDoc ==
  /\ docPc = "idle"
  /\ \E personSummary \in DocSummaries : \E date \in DocDates :
       docInput' = [personSummary |-> personSummary, date |-> date]
  /\ attempts' = 0
  /\ docsCheckGapi' = ~gapiClient
  /\ documentId' = <<>>
  /\ docRequests' = <<>>
  /\ IF gapiClient
     THEN LET next == AfterGapiWait(DocLogStart)
          IN docPc' = next.pc /\ docResult' = next.result /\ docLog' = next.log
     ELSE docPc' = "gapiWait" /\ docResult' = DocPending /\ docLog' = DocLogStart
  /\ UNCHANGED <<gapiClient, authToken, docsLoaded, docsVerified>>
  /\ UNCHANGED <<calVars, selVars, runVars, sumVars, callVars, lookupVars,
                 notesVars, viewVars>>

\* the tick that gives up one attempt late
PollGapi_late ==
  /\ docsCheckGapi
  /\ attempts' = attempts + 1
  /\ IF gapiClient
     THEN LET next == AfterGapiWait([docLog EXCEPT !.clientSeen = TRUE])
          IN /\ docsCheckGapi' = FALSE
             /\ docPc' = next.pc /\ docResult' = next.result /\ docLog' = next.log
     ELSE IF attempts' > maxAttempts
          THEN /\ docsCheckGapi' = FALSE
               /\ docPc' = "idle"
               /\ docResult' = DocRejection(GapiTimeout)
               /\ docLog' = [docLog EXCEPT !.failed = TRUE]
          ELSE UNCHANGED <<docsCheckGapi, docPc, docResult, docLog>>
  /\ UNCHANGED <<gapiClient, authToken, docsLoaded, docsVerified, docInput, documentId,
                 docRequests>>
  /\ UNCHANGED <<calVars, selVars, runVars, sumVars, callVars, lookupVars,
                 notesVars, viewVars>>

\* loadDocsApi: one tick of the checkGapi interval
PollGapi ==
  /\ docsCheckGapi
  /\ attempts' = attempts + 1
  /\ IF gapiClient
     THEN LET next == AfterGapiWait([docLog EXCEPT !.clientSeen = TRUE])
          IN /\ docsCheckGapi' = FALSE
             /\ docPc' = next.pc /\ docResult' = next.result /\ docLog' = next.log
     ELSE IF attempts' >= maxAttempts
          THEN /\ docsCheckGapi' = FALSE
               /\ docPc' = "idle"
               /\ docResult' = DocRejection(GapiTimeout)
               /\ docLog' = [docLog EXCEPT !.failed = TRUE]
          ELSE UNCHANGED <<docsCheckGapi, docPc, docResult, docLog>>
  /\ UNCHANGED <<gapiClient, authToken, docsLoaded, docsVerified, docInput, documentId,
                 docRequests>>
  /\ UNCHANGED <<calVars, selVars, runVars, sumVars, callVars, lookupVars,
                 notesVars, viewVars>>

\* loadDocsApi: gapi.client.load('docs', 'v1') has settled
DocsApiLoaded ==
  /\ docPc = "loadDocs"
  /\ \E ok \in BOOLEAN :
       IF ok
       THEN /\ docsLoaded' = TRUE
            /\ docPc' = "probe"
            /\ docLog' = [docLog EXCEPT !.probes = @ + 1]
            /\ UNCHANGED docResult
       ELSE /\ docPc' = "idle"
            /\ docResult' = DocRejection(FailedToLoadDocs)
            /\ docLog' = [docLog EXCEPT !.failed = TRUE]
            /\ UNCHANGED docsLoaded
  /\ UNCHANGED <<gapiClient, authToken, attempts, docsCheckGapi, docsVerified, docInput, documentId,
                 docRequests>>
  /\ UNCHANGED <<calVars, selVars, runVars, sumVars, callVars, lookupVars,
                 notesVars, viewVars>>

\* the statuses the access probe is answered with; 0 is a failed fetch
ProbeStatuses == {404, 403, 200, 0}

\* loadDocsApi: the probe of documents/test has been answered
ProbeAnswered ==
  /\ docPc = "probe"
  /\ \E status \in ProbeStatuses :
       IF status = 404
       THEN LET next == CreateStep(docLog)
            IN /\ docPc' = next.pc /\ docResult' = next.result /\ docLog' = next.log
               /\ docsVerified' = TRUE
       ELSE /\ docPc' = "idle"
            /\ UNCHANGED docsVerified
            /\ docResult' = DocRejection(FailedToLoadDocs)
            /\ docLog' = [docLog EXCEPT !.failed = TRUE]
  /\ UNCHANGED <<gapiClient, authToken, docsLoaded, attempts, docsCheckGapi, docInput, documentId,
                 docRequests>>
  /\ UNCHANGED <<calVars, selVars, runVars, sumVars, callVars, lookupVars,
                 notesVars, viewVars>>

\* createMeetingDoc: the create request has been answered
CreateAnswered ==
  /\ docPc = "create"
  /\ \E ok \in BOOLEAN : \E id \in DocumentIds :
       IF ok
       THEN /\ documentId' = id
            /\ docRequests' = DocRequests(docInput.personSummary, docInput.date)
            /\ docPc' = "update"
            /\ docLog' = [docLog EXCEPT !.createOk = TRUE, !.createdId = id,
                                        !.updateSent = TRUE]
            /\ UNCHANGED docResult
       ELSE /\ docPc' = "idle"
            /\ docResult' = DocRejection(FailedToCreate)
            /\ docLog' = [docLog EXCEPT !.failed = TRUE]
            /\ UNCHANGED <<documentId, docRequests>>
  /\ UNCHANGED <<gapiClient, authToken, docsLoaded, attempts, docsCheckGapi, docsVerified, docInput>>
  /\ UNCHANGED <<calVars, selVars, runVars, sumVars, callVars, lookupVars,
                 notesVars, viewVars>>

\* the batchUpdate answer taken for a success whatever its status
UpdateAnswered_unchecked ==
  /\ docPc = "update"
  /\ \E ok \in BOOLEAN :
       /\ docResult' = DocResolved(DocUrl(documentId))
       /\ docLog' = [docLog EXCEPT !.updateOk = ok, !.failed = ~ok]
  /\ docPc' = "idle"
  /\ UNCHANGED <<gapiClient, authToken, docsLoaded, attempts, docsCheckGapi, docsVerified, docInput, documentId,
                 docRequests>>
  /\ UNCHANGED <<calVars, selVars, runVars, sumVars, callVars, lookupVars,
                 notesVars, viewVars>>

\* createMeetingDoc: the batchUpdate request has been answered
UpdateAnswered ==
  /\ docPc = "update"
  /\ \E ok \in BOOLEAN :
       IF ok
       THEN /\ docResult' = DocResolved(DocUrl(documentId))
            /\ docLog' = [docLog EXCEPT !.updateOk = TRUE]
       ELSE /\ docResult' = DocRejection(FailedToUpdate)
            /\ docLog' = [docLog EXCEPT !.failed = TRUE]
  /\ docPc' = "idle"
  /\ UNCHANGED <<gapiClient, authToken, docsLoaded, attempts, docsCheckGapi, docsVerified, docInput, documentId,
                 docRequests>>
  /\ UNCHANGED <<calVars, selVars, runVars, sumVars, callVars, lookupVars,
                 notesVars, viewVars>>

DocNext ==
  \/ GapiClientLoads
  \/ TokenChanges
  \/ createMeetingDoc
  \/ PollGapi
  \/ DocsApiLoaded
  \/ ProbeAnswered
  \/ CreateAnswered
  \/ UpdateAnswered


\* ------------------------------------------------- summary route, results view
\* the prompt template of the summary route
SUMMARY_PROMPT ==
  <<"P", "l", "e", "a", "s", "e", " ", "a", "n", "a", "l", "y", "z", "e", " ", "t",
    "h", "e", " ", "f", "o", "l", "l", "o", "w", "i", "n", "g", " ", "t", "e", "x",
    "t", " ", "a", "b", "o", "u", "t", " ", "a", " ", "p", "e", "r", "s", "o", "n",
    " ", "a", "n", "d", " ", "p", "r", "o", "v", "i", "d", "e", " ", "a", " ", "p",
    "r", "o", "f", "e", "s", "s", "i", "o", "n", "a", "l", " ", "s", "u", "m", "m",
    "a", "r", "y", ".", " ", "F", "o", "r", " ", "e", "a", "c", "h", " ", "k", "e",
    "y", " ", "p", "o", "i", "n", "t", " ", "i", "n", " ", "y", "o", "u", "r", " ",
    "s", "u", "m", "m", "a", "r", "y", ",", " ", "r", "e", "f", "e", "r", "e", "n",
    "c", "e", " ", "t", "h", "e", " ", "s", "o", "u", "r", "c", "e", " ", "b", "y",
    " ", "i", "n", "c", "l", "u", "d", "i", "n", "g", " ", "a", " ", "[", "S", "o",
    "u", "r", "c", "e", " ", "X", "]", " ", "t", "a", "g", ",", " ", "w", "h", "e",
    "r", "e", " ", "X", " ", "c", "o", "r", "r", "e", "s", "p", "o", "n", "d", "s",
    " ", "t", "o", " ", "t", "h", "e", " ", "n", "u", "m", "b", "e", "r", "e", "d",
    " ", "s", "o", "u", "r", "c", "e", " ", "i", "n", " ", "t", "h", "e", " ", "l",
    "i", "s", "t", " ", "b", "e", "l", "o", "w", ".", "\n", "\n", "F", "o", "c",
    "u", "s", " ", "o", "n", ":", "\n", "1", ".", " ", "T", "h", "e", "i", "r",
    " ", "c", "u", "r", "r", "e", "n", "t", " ", "r", "o", "l", "e", " ", "a", "n",
    "d", " ", "c", "o", "m", "p", "a", "n", "y", "\n", "2", ".", " ", "K", "e",
    "y", " ", "p", "r", "e", "v", "i", "o", "u", "s", " ", "e", "x", "p", "e", "r",
    "i", "e", "n", "c", "e", " ", "a", "n", "d", " ", "r", "o", "l", "e", "s",
    "\n", "3", ".", " ", "N", "o", "t", "a", "b", "l", "e", " ", "a", "c", "h",
    "i", "e", "v", "e", "m", "e", "n", "t", "s", " ", "a", "n", "d", " ", "e", "x",
    "p", "e", "r", "t", "i", "s", "e", "\n", "4", ".", " ", "E", "d", "u", "c",
    "a", "t", "i", "o", "n", "a", "l", " ", "b", "a", "c", "k", "g", "r", "o", "u",
    "n", "d", " ", "(", "i", "f", " ", "m", "e", "n", "t", "i", "o", "n", "e", "d",
    ")", "\n", "5", ".", " ", "A", "n", "y", " ", "r", "e", "l", "e", "v", "a",
    "n", "t", " ", "p", "r", "o", "j", "e", "c", "t", "s", " ", "o", "r", " ", "i",
    "n", "i", "t", "i", "a", "t", "i", "v", "e", "s", " ", "t", "h", "e", "y", "'",
    "r", "e", " ", "w", "o", "r", "k", "i", "n", "g", " ", "o", "n", "\n", "6",
    ".", " ", "A", "n", "y", " ", "i", "n", "t", "e", "r", "e", "s", "t", "i", "n",
    "g", " ", "f", "a", "c", "t", "s", " ", "t", "h", "a", "t", " ", "w", "i", "l",
    "l", " ", "h", "e", "l", "p", " ", "i", "n", " ", "a", " ", "m", "e", "e", "t",
    "i", "n", "g", " ", "w", "i", "t", "h", " ", "t", "h", "i", "s", " ", "p", "e",
    "r", "s", "o", "n", "\n", "\n", "F", "o", "r", "m", "a", "t", " ", "y", "o",
    "u", "r", " ", "r", "e", "s", "p", "o", "n", "s", "e", " ", "w", "i", "t", "h",
    " ", "i", "n", "l", "i", "n", "e", " ", "s", "o", "u", "r", "c", "e", " ", "r",
    "e", "f", "e", "r", "e", "n", "c", "e", "s", " ", "l", "i", "k", "e", " ", "t",
    "h", "i", "s", " ", "e", "x", "a", "m", "p", "l", "e", ":", "\n", "\"", "J",
    "o", "h", "n", " ", "i", "s", " ", "c", "u", "r", "r", "e", "n", "t", "l", "y",
    " ", "t", "h", "e", " ", "C", "E", "O", " ", "o", "f", " ", "T", "e", "c", "h",
    "C", "o", "r", "p", " ", "[", "S", "o", "u", "r", "c", "e", " ", "1", "]", ".",
    " ", "P", "r", "e", "v", "i", "o", "u", "s", "l", "y", ",", " ", "h", "e", " ",
    "w", "o", "r", "k", "e", "d", " ", "a", "t", " ", "G", "o", "o", "g", "l", "e",
    " ", "a", "s", " ", "a", " ", "S", "e", "n", "i", "o", "r", " ", "E", "n", "g",
    "i", "n", "e", "e", "r", " ", "[", "S", "o", "u", "r", "c", "e", " ", "2", "]",
    ",", " ", "w", "h", "e", "r", "e", " ", "h", "e", " ", "l", "e", "d", " ", "t",
    "h", "e", " ", "d", "e", "v", "e", "l", "o", "p", "m", "e", "n", "t", " ", "o",
    "f", ".", ".", ".", "\"", "\n", "\n", "H", "e", "r", "e", " ", "a", "r", "e",
    " ", "t", "h", "e", " ", "s", "o", "u", "r", "c", "e", "s", ":", "\n", "{",
    "{", "S", "O", "U", "R", "C", "E", "S", "}", "}", "\n", "\n", "T", "e", "x",
    "t", " ", "t", "o", " ", "a", "n", "a", "l", "y", "z", "e", ":", "\n", "{",
    "{", "T", "E", "X", "T", "}", "}">>

\* String.prototype.replace with a string pattern: the first occurrence; the
\* replacement strings used here carry no $ patterns
Replace(s, pat, rep) ==
  IF ~Includes(s, pat) THEN s
  ELSE LET pos == CHOOSE p \in 1..Len(s) :
                    MatchAt(s, p, pat) /\ \A q \in 1..(p - 1) : ~MatchAt(s, q, pat)
       IN SubSeq(s, 1, pos - 1) \o rep \o SubSeq(s, pos + Len(pat), Len(s))

\* summary route: SUMMARY_PROMPT with its two placeholders replaced
finalPrompt(personInfo) ==
  Replace(Replace(SUMMARY_PROMPT, <<"{", "{", "S", "O", "U", "R", "C", "E", "S", "}", "}">>, sourcesList(personInfo)),
          <<"{", "{", "T", "E", "X", "T", "}", "}">>, combinedText(personInfo))

\* a string child and an <a> child of the rendered summary
TextNode(text) == [type |-> "text", text |-> text, href |-> <<>>, title |-> <<>>]
LinkNode(source, sourceTag) ==
  [type |-> "a", text |-> sourceTag, href |-> source.url, title |-> source.title]

\* the tag of the source after the one being linked
RenderSourceTag_next(index) ==
  <<"[", "S", "o", "u", "r", "c", "e", " ">> \o ToDecimal(index + 2) \o <<"]">>

\* renderSummaryWithLinks: `[Source ${index + 1}]`, index counted from 0
RenderSourceTag(index) ==
  <<"[", "S", "o", "u", "r", "c", "e", " ">> \o ToDecimal(index + 1) \o <<"]">>

RECURSIVE LinkSplit(_, _, _)
\* renderSummaryWithLinks: split.reduce, a link before every text but the first
LinkSplit(split, source, sourceTag) ==
  IF Len(split) = 1 THEN <<TextNode(split[1])>>
  ELSE LinkSplit(SubSeq(split, 1, Len(split) - 1), source, sourceTag)
         \o <<LinkNode(source, sourceTag), TextNode(split[Len(split)])>>

RECURSIVE LinkParts(_, _, _)
\* renderSummaryWithLinks: parts.flatMap for one source
LinkParts(nodes, source, sourceTag) ==
  IF Len(nodes) = 0 THEN <<>>
  ELSE (IF nodes[1].type # "text" THEN <<nodes[1]>>
        ELSE LinkSplit(Split(nodes[1].text, sourceTag), source, sourceTag))
       \o LinkParts(Tail(nodes), source, sourceTag)

RECURSIVE LinkSources(_, _, _)
\* renderSummaryWithLinks: sources.forEach from the given index on
LinkSources(nodes, sources, index) ==
  IF index >= Len(sources) THEN nodes
  ELSE LinkSources(LinkParts(nodes, sources[index + 1], RenderSourceTag(index)),
                   sources, index + 1)

\* ExaResults renderSummaryWithLinks: the children of the rendered summary
renderSummaryWithLinks(summary, sources) ==
  IF sources = None THEN <<TextNode(summary)>>
  ELSE LinkSources(<<TextNode(summary)>>, sources[1], 0)

\* the people the summary route is asked about
SummaryInputs ==
  {[name |-> <<"A">>, searchResults |-> list, error |-> NoError] :
     list \in UNION {[1..n -> {ExaResult1, ExaResult2}] : n \in 0..MaxSources}}

\* pieces the chat completion's answer is made of
ContentPieces == {SourceTag(1), SourceTag(2), SourceTag(3), <<"a">>, <<"[", "S">>}
Contents ==
  {Join(pieces, <<>>) : pieces \in UNION {[1..n -> ContentPieces] : n \in 0..MaxPieces}}
SummaryAnswers ==
  {Completion(content) : content \in Contents} \cup {Refusal(500, None)}

SumInit ==
  /\ sumPc = "idle"
  /\ sumInput = Null
  /\ sumPrompt = <<>>
  /\ sumResponse = Null
  /\ sumRecord = Null
  /\ sumParts = <<>>

\* generatePersonSummary(personInfo) posts to /api/summary
SummaryRequested ==
  /\ sumPc \in {"idle", "view"}
  /\ \E personInfo \in SummaryInputs : sumInput' = personInfo
  /\ sumPc' = "route"
  /\ sumPrompt' = <<>>
  /\ sumResponse' = Null
  /\ sumRecord' = Null
  /\ sumParts' = <<>>
  /\ UNCHANGED <<calVars, selVars, runVars, docVars, callVars, lookupVars,
                 notesVars, viewVars>>

\* POST /api/summary builds the prompt and answers with what the model said
SummaryRoutePost ==
  /\ sumPc = "route"
  /\ sumPrompt' = finalPrompt(sumInput)
  /\ \E openai \in SummaryAnswers : sumResponse' = SummaryRoute(sumInput, openai)
  /\ sumPc' = "client"
  /\ UNCHANGED <<sumInput, sumRecord, sumParts>>
  /\ UNCHANGED <<calVars, selVars, runVars, docVars, callVars, lookupVars,
                 notesVars, viewVars>>

\* generatePersonSummary returns the record the results view is given
SummaryReceived ==
  /\ sumPc = "client"
  /\ sumRecord' = generatePersonSummary(sumInput, sumResponse)
  /\ sumPc' = "show"
  /\ UNCHANGED <<sumInput, sumPrompt, sumResponse, sumParts>>
  /\ UNCHANGED <<calVars, selVars, runVars, docVars, callVars, lookupVars,
                 notesVars, viewVars>>

\* ExaResults renders the card of the person: the error, or the summary with
\* its links if there is one
SummaryRendered ==
  /\ sumPc = "show"
  /\ sumParts' = IF sumRecord.error # NoError \/ Len(sumRecord.summary) = 0 THEN <<>>
                 ELSE renderSummaryWithLinks(sumRecord.summary, sumRecord.sources)
  /\ sumPc' = "view"
  /\ UNCHANGED <<sumInput, sumPrompt, sumResponse, sumRecord>>
  /\ UNCHANGED <<calVars, selVars, runVars, docVars, callVars, lookupVars,
                 notesVars, viewVars>>

SummaryNext ==
  \/ SummaryRequested
  \/ SummaryRoutePost
  \/ SummaryReceived
  \/ SummaryRendered


\* ------------------------------------------------------ fetchContactDetails
\* the timeout of the gapi wait (5000 ms) in periods of its interval (100 ms)
TimeoutTicks == 50

\* the emails fetchContactDetails is called with
LookupEmails == {AnnLee.email, <<"b", "o", "b">>}

\* persons the People API can answer a search with
PersonAnn ==
  [resourceName |-> <<"p", "1">>, emailAddresses |-> <<<<"A", ".", "L", "@", "x">>>>,
   displayName |-> <<"A", " ", "L">>]
PersonUnnamed == [resourceName |-> <<>>, emailAddresses |-> <<>>, displayName |-> <<>>]

\* what a searchContacts call can do: throw, or answer with results
SearchAnswers ==
  {[throws |-> TRUE, results |-> <<>>]}
    \cup {[throws |-> FALSE, results |-> r] :
            r \in {<<>>, <<PersonAnn>>, <<PersonUnnamed>>, <<PersonUnnamed, PersonAnn>>}}

\* what people.get can do: throw, answer without a result, or with a profile
ProfileAnswers ==
  {[throws |-> TRUE, result |-> Null], [throws |-> FALSE, result |-> Null],
   [throws |-> FALSE,
    result |-> [givenName |-> <<"a", "n">>, familyName |-> <<"l", "i">>, nickname |-> <<>>]],
   [throws |-> FALSE,
    result |-> [givenName |-> <<>>, familyName |-> <<>>, nickname |-> <<"a", "l", " ", "b", " ", "c">>]],
   [throws |-> FALSE,
    result |-> [givenName |-> <<>>, familyName |-> <<>>, nickname |-> <<>>]]}

\* String.prototype.includes
includes(s, pat) == pat = <<>> \/ Includes(s, pat)

\* Array.prototype.find, matches[k] telling whether list[k] passes the test
Find(list, matches) ==
  IF \E k \in 1..Len(list) : matches[k]
  THEN list[CHOOSE k \in 1..Len(list) : matches[k] /\ \A j \in 1..(k - 1) : ~matches[j]]
  ELSE Null

\* a || b on strings
OrElse(a, b) == IF Len(a) > 0 THEN a ELSE b

\* strategy 1: results?.[0]?.person
FirstPerson(list) == IF Len(list) > 0 THEN list[1] ELSE Null

\* strategy 2: the result with the email among its addresses
EmailMatch(list, email) ==
  Find(list, [n \in 1..Len(list) |->
                \E k \in 1..Len(list[n].emailAddresses) :
                  toLowerCase(list[n].emailAddresses[k]) = toLowerCase(email)])

\* email.split('@')[0].replace(/[.+]/g, ' ')
nameFromEmail(email) == Join(SplitAny(Split(email, <<"@">>)[1], {".", "+"}), <<" ">>)

\* strategy 3: the result whose name contains the name from the email, or is in it
NameMatch(list, email) ==
  Find(list, [n \in 1..Len(list) |->
                LET fullName == toLowerCase(list[n].displayName)
                    normalizedNameFromEmail == toLowerCase(nameFromEmail(email))
                IN \/ includes(fullName, normalizedNameFromEmail)
                   \/ includes(normalizedNameFromEmail, fullName)])

\* strategies 2 and 3 run regardless of what was found
RunsStrategy_always(found, email) == Includes(email, <<"@">>)

\* `if (!person && email.includes('@'))`
RunsStrategy(found, email) == found = Null /\ Includes(email, <<"@">>)

\* the details built from a profile
ProfileDetailsOf(result, email) ==
  LET local == Split(Split(email, <<"@">>)[1], <<".">>)
      nick == Split(result.nickname, <<" ">>)
      firstName == OrElse(result.givenName, OrElse(nick[1], local[1]))
      lastName == OrElse(result.familyName,
                         OrElse(Join(Tail(nick), <<" ">>), Join(Tail(local), <<" ">>)))
  IN [firstName |-> Capitalize(firstName), lastName |-> Capitalize(lastName)]

LookupInit ==
  /\ lookupPc = "idle"
  /\ lookupEmail = <<>>
  /\ checkGapi = FALSE
  /\ gapiTimeout = FALSE
  /\ waited = 0
  /\ peopleApi = FALSE
  /\ lookupPerson = Null
  /\ queries = <<>>
  /\ threw = FALSE
  /\ lookupResult = Null

\* fetchContactDetails returns
Returns(details) ==
  /\ lookupPc' = "returned"
  /\ lookupResult' = details

\* the catch block, then the fallback
Caught ==
  /\ threw' = TRUE
  /\ Returns(FallbackDetails(lookupEmail))

\* where fetchContactDetails goes after its strategy n, found being the person
AfterStrategy(n, found) ==
  IF n < 3 /\ RunsStrategy(found, lookupEmail)
  THEN /\ lookupPc' = IF n = 1 THEN "strategy2" ELSE "strategy3"
       /\ UNCHANGED lookupResult
  ELSE IF found # Null /\ Len(found.resourceName) > 0
  THEN /\ lookupPc' = "profile"
       /\ UNCHANGED lookupResult
  ELSE Returns(FallbackDetails(lookupEmail))

\* fetchContactDetails(email) is called: it starts the wait for the gapi client
fetchContactDetails ==
  /\ lookupPc \in {"idle", "returned", "gaveUp"}
  /\ ~checkGapi /\ ~gapiTimeout
  /\ \E email \in LookupEmails : lookupEmail' = email
  /\ lookupPerson' = Null
  /\ queries' = <<>>
  /\ threw' = FALSE
  /\ waited' = 0
  /\ IF ~apiSign
     THEN /\ Returns(Null)
          /\ UNCHANGED <<checkGapi, gapiTimeout>>
     ELSE /\ checkGapi' = ~gapiClient
          /\ gapiTimeout' = TRUE
          /\ lookupPc' = IF gapiClient THEN "people" ELSE "wait"
          /\ lookupResult' = Null
  /\ UNCHANGED peopleApi
  /\ UNCHANGED <<calVars, selVars, runVars, docVars, sumVars, callVars,
                 notesVars, viewVars>>

\* the interval callback runs, every 100 ms
CheckGapiTick ==
  /\ checkGapi
  /\ gapiTimeout => waited < TimeoutTicks
  /\ IF gapiClient
     THEN /\ checkGapi' = FALSE
          /\ lookupPc' = IF lookupPc = "wait" THEN "people" ELSE lookupPc
          /\ UNCHANGED waited
     ELSE /\ waited' = IF gapiTimeout THEN waited + 1 ELSE waited
          /\ UNCHANGED <<checkGapi, lookupPc>>
  /\ UNCHANGED <<lookupEmail, gapiTimeout, peopleApi, lookupPerson, queries, threw, lookupResult>>
  /\ UNCHANGED <<calVars, selVars, runVars, docVars, sumVars, callVars,
                 notesVars, viewVars>>

\* the timeout callback runs after 5000 ms: the race rejects unless it is settled
GapiWaitTimeout ==
  /\ gapiTimeout
  /\ checkGapi => waited = TimeoutTicks
  /\ gapiTimeout' = FALSE
  /\ IF lookupPc = "wait"
     THEN lookupPc' = "gaveUp" /\ lookupResult' = Null
     ELSE UNCHANGED <<lookupPc, lookupResult>>
  /\ UNCHANGED <<lookupEmail, checkGapi, waited, peopleApi, lookupPerson, queries, threw>>
  /\ UNCHANGED <<calVars, selVars, runVars, docVars, sumVars, callVars,
                 notesVars, viewVars>>

\* gapi.client.load('people', 'v1') unless the People API is loaded
PeopleApiLoad ==
  /\ lookupPc = "people"
  /\ \/ /\ peopleApi' = TRUE
        /\ lookupPc' = "strategy1"
        /\ UNCHANGED <<threw, lookupResult>>
     \/ /\ ~peopleApi
        /\ Caught
        /\ UNCHANGED peopleApi
  /\ UNCHANGED <<lookupEmail, checkGapi, gapiTimeout, waited, lookupPerson, queries>>
  /\ UNCHANGED <<calVars, selVars, runVars, docVars, sumVars, callVars,
                 notesVars, viewVars>>

\* the person strategy n takes from the results of its search
Matching(n, list) ==
  IF n = 1 THEN FirstPerson(list)
  ELSE IF n = 2 THEN EmailMatch(list, lookupEmail)
  ELSE NameMatch(list, lookupEmail)

\* strategy n searches and takes the person its matcher finds
Strategy(n, pc) ==
  /\ lookupPc = pc
  /\ \E answer \in SearchAnswers :
       IF answer.throws
       THEN /\ Caught
            /\ queries' = Append(queries, [strategy |-> n, found |-> FALSE])
            /\ UNCHANGED lookupPerson
       ELSE LET found == Matching(n, answer.results)
            IN /\ lookupPerson' = found
               /\ queries' = Append(queries, [strategy |-> n, found |-> found # Null])
               /\ AfterStrategy(n, found)
               /\ UNCHANGED threw
  /\ UNCHANGED <<lookupEmail, checkGapi, gapiTimeout, waited, peopleApi>>
  /\ UNCHANGED <<calVars, selVars, runVars, docVars, sumVars, callVars,
                 notesVars, viewVars>>

\* 1. exact email match
Strategy1 == Strategy(1, "strategy1")

\* 2. email without domain
Strategy2 == Strategy(2, "strategy2")

\* 3. name from email
Strategy3 == Strategy(3, "strategy3")

\* people.get of the person found
ProfileGet ==
  /\ lookupPc = "profile"
  /\ \E answer \in ProfileAnswers :
       IF answer.throws THEN Caught
       ELSE /\ IF answer.result # Null
               THEN Returns(ProfileDetailsOf(answer.result, lookupEmail))
               ELSE Returns(FallbackDetails(lookupEmail))
            /\ UNCHANGED threw
  /\ UNCHANGED <<lookupEmail, checkGapi, gapiTimeout, waited, peopleApi, lookupPerson, queries>>
  /\ UNCHANGED <<calVars, selVars, runVars, docVars, sumVars, callVars,
                 notesVars, viewVars>>

LookupNext ==
  \/ fetchContactDetails
  \/ CheckGapiTick
  \/ GapiWaitTimeout
  \/ GapiClientLoads
  \/ PeopleApiLoad
  \/ Strategy1
  \/ Strategy2
  \/ Strategy3
  \/ ProfileGet

\* ------------------------------------------------- Create Notes, View Notes
\* the summaries of the results view: two to make notes of, one with an error
NotesSummaries ==
  {[name |-> <<"A">>, error |-> NoError], [name |-> <<"B">>, error |-> NoError],
   [name |-> <<"C">>, error |-> Some(<<"e">>)]}

\* docUrls[name]
UrlOf(name) ==
  IF \E e \in docUrls : e.name = name
  THEN (CHOOSE e \in docUrls : e.name = name).url
  ELSE <<>>

\* what the button of a person reads
ButtonLabel(name) ==
  IF name \in creatingDocs THEN "Creating..."
  ELSE IF Len(UrlOf(name)) > 0 THEN "View Notes"
  ELSE "Create Notes"

NotesInit ==
  /\ creatingDocs = {}
  /\ docUrls = {}
  /\ notesPending = {}
  /\ docsCreated = <<>>

\* a click on the button of a person: handleCreateDoc up to its await
handleCreateDoc ==
  /\ Len(docsCreated) + Cardinality(notesPending) < MaxDocs
  /\ \E personSummary \in NotesSummaries :
       /\ personSummary.error = NoError
       /\ personSummary.name \notin creatingDocs
       /\ creatingDocs' = creatingDocs \cup {personSummary.name}
       /\ notesPending' = notesPending \cup {personSummary.name}
  /\ UNCHANGED <<docUrls, docsCreated>>
  /\ UNCHANGED <<calVars, selVars, runVars, docVars, sumVars, callVars, lookupVars,
                 viewVars>>

\* createMeetingDoc resolved with the URL of the new document
CreateDocResolved ==
  /\ \E name \in notesPending :
       /\ docsCreated' = Append(docsCreated, name)
       /\ docUrls' = {e \in docUrls : e.name # name}
                       \cup {[name |-> name,
                               url |-> DocUrl(<<"d">> \o ToDecimal(Len(docsCreated) + 1))]}
       /\ creatingDocs' = creatingDocs \ {name}
       /\ notesPending' = notesPending \ {name}
  /\ UNCHANGED <<calVars, selVars, runVars, docVars, sumVars, callVars, lookupVars,
                 viewVars>>

\* createMeetingDoc rejected, before the document was created or after
CreateDocRejected ==
  /\ \E name \in notesPending : \E created \in BOOLEAN :
       /\ docsCreated' = IF created THEN Append(docsCreated, name) ELSE docsCreated
       /\ creatingDocs' = creatingDocs \ {name}
       /\ notesPending' = notesPending \ {name}
  /\ UNCHANGED docUrls
  /\ UNCHANGED <<calVars, selVars, runVars, docVars, sumVars, callVars, lookupVars,
                 viewVars>>

NotesNext ==
  \/ handleCreateDoc
  \/ CreateDocResolved
  \/ CreateDocRejected

\* before Create Notes is pressed and before a summary is requested
ServicesIdle ==
  /\ gapiClient = FALSE
  /\ authToken = FALSE
  /\ DocIdle
  /\ SumInit
  /\ CallInit
  /\ LookupInit
  /\ NotesInit
  /\ ViewInit

\* the Calendar component signed in, its events fetched and the week of the
\* first events selected with a shift-click
SignedInInit ==
  /\ apiCalendar = TRUE
  /\ apiSign = TRUE
  /\ isSignedIn = TRUE
  /\ events = CalendarItems
  /\ selectedDate = 1 * HoursPerDay
  /\ selectedWeek = startOfWeek(selectedDate)
  /\ selectedDayEvents = <<>>
  /\ selectedWeekEvents = SubSeq(CalendarItems, 1, 2)
  /\ isCalendarCollapsed = TRUE
  /\ authPending = 0
  /\ listPending = 0
  /\ authCalls = 1 /\ authOk = 1 /\ authFailed = 0 /\ fetchCalls = 1
  /\ lastClick = [kind |-> "week", date |-> 1 * HoursPerDay, hadDay |-> FALSE,
                  hadWeek |-> FALSE]

\* attendee selection: the clicks on attendees, the manual form and Clear All
SelectInit == SignedInInit /\ SelInit /\ RunInit /\ ServicesIdle

SelectNext ==
  \/ AttendeeClick
  \/ ChipRemove
  \/ ManualAdd
  \/ SelectResumed
  \/ ClearAll

SpecSelect == SelectInit /\ [][SelectNext]_vars

\* the attendee rows of the displayed events
SelectableEntries ==
  UNION {{[key |-> AttendeeKey(CalendarItems[e].id, CalendarItems[e].attendees[a].email),
           eventId |-> CalendarItems[e].id,
           attendee |-> CalendarItems[e].attendees[a]] :
            a \in 1..Len(CalendarItems[e].attendees)} : e \in 1..2}

\* the selections of up to MaxAttendees rows, in the order of their selection
Selections ==
  {sel \in UNION {[1..n -> SelectableEntries] : n \in 1..MaxAttendees} :
     \A j, k \in 1..Len(sel) : j # k => sel[j].key # sel[k].key}

\* the caches the contact lookups of a selection can have left: no lookup
\* returned details, or every lookup returned the fallback
CachesOf(sel) ==
  LET emails == {sel[k].attendee.email : k \in 1..Len(sel)}
  IN {{}, {[email |-> m, firstName |-> FallbackDetails(m).firstName,
            lastName |-> FallbackDetails(m).lastName] : m \in emails}}

\* the research run: Continue is pressed with attendees selected; the results
\* view shows the selected attendees with their remove buttons and Clear All
ResearchInit ==
  /\ SignedInInit
  /\ RunInit
  /\ ServicesIdle
  /\ \E sel \in Selections :
       /\ selectedAttendeesDetails = sel
       /\ selectedAttendees = {sel[k].key : k \in 1..Len(sel)}
       /\ expectedSel = {sel[k].key : k \in 1..Len(sel)}
       /\ enhancedAttendees \in CachesOf(sel)
  /\ pendingSelects = <<>>
  /\ contactCalls = <<>>
  /\ clicks = 0
  /\ now = 0

ResearchNext ==
  \/ ChipRemove
  \/ ClearAll
  \/ Continue
  \/ SearchIssue
  \/ SearchReturn
  \/ SearchStageDone
  \/ SummaryIssue
  \/ SummaryReturn
  \/ SummaryStageDone
  \/ RunFinally

SpecResearch == ResearchInit /\ [][ResearchNext]_vars

\* research runs of two attendees in which any statement of the try block
\* may throw; the timers fire and the requests settle
FaultyRunInit ==
  /\ ResearchInit
  /\ Len(selectedAttendeesDetails) = 2
  /\ enhancedAttendees = {}

FaultyRunNext ==
  \/ ClearAll
  \/ Continue
  \/ SearchIssue
  \/ SearchReturn
  \/ SearchStageDone
  \/ SummaryIssue
  \/ SummaryReturn
  \/ SummaryStageDone
  \/ RunCaught
  \/ RunFinally

SpecFaultyRun ==
  /\ FaultyRunInit
  /\ [][FaultyRunNext]_vars
  /\ WF_vars(SearchIssue) /\ WF_vars(SearchReturn) /\ WF_vars(SearchStageDone)
  /\ WF_vars(SummaryIssue) /\ WF_vars(SummaryReturn) /\ WF_vars(SummaryStageDone)
  /\ WF_vars(RunFinally)

\* the results view after a research run, Create Notes within reach
DocSpecInit ==
  /\ SignedInInit /\ SelInit /\ RunInit
  /\ DocInit /\ SumInit /\ CallInit /\ LookupInit /\ NotesInit /\ ViewInit

SpecDoc == DocSpecInit /\ [][DocNext]_vars

\* one person's summary from the request to the rendered links
SummaryInit ==
  /\ SignedInInit /\ SelInit /\ RunInit
  /\ gapiClient = FALSE
  /\ authToken = FALSE
  /\ DocIdle
  /\ SumInit
  /\ CallInit
  /\ LookupInit
  /\ NotesInit
  /\ ViewInit

SpecSummary == SummaryInit /\ [][SummaryNext]_vars

\* calls of the client services alone
SpecServices == SummaryInit /\ [][ServiceNext]_vars

\* calls of fetchContactDetails, the gapi script loading at any time or never
LookupFairness ==
  /\ WF_vars(CheckGapiTick) /\ WF_vars(GapiWaitTimeout) /\ WF_vars(PeopleApiLoad)
  /\ WF_vars(Strategy1) /\ WF_vars(Strategy2) /\ WF_vars(Strategy3)
  /\ WF_vars(ProfileGet)

SpecLookup == SummaryInit /\ [][LookupNext]_vars /\ LookupFairness

\* the buttons of one results view
SpecNotes == SummaryInit /\ [][NotesNext]_vars

Init == CalInit /\ SelInit /\ RunInit /\ ServicesIdle

Next ==
  \/ Mount
  \/ handleSignIn
  \/ AuthResolved
  \/ AuthRejected
  \/ FetchEventsOk
  \/ FetchEventsFailed
  \/ DayClick
  \/ WeekClick
  \/ toggleCalendarView

Spec == Init /\ [][Next]_vars

\* ------------------------------------------------------------------ claims

OutstandingOf(fn) == {call \in outstanding : call.fn = fn}
RunFinished == runPc = "idle" /\ runs > 0
Failed(records) == \E k \in 1..Len(records) : records[k].error # NoError

\* C1: within a research run no generatePersonSummary request is issued
\* before the searchPerson request of every attendee of the run has been
\* issued and has returned.
C1_SearchBeforeSummary ==
  (Len(summaryCalls) > 0 \/ OutstandingOf("generatePersonSummary") # {}) =>
    /\ Len(searchCalls) = Len(attendees)
    /\ Len(results) = Len(attendees)
    /\ OutstandingOf("searchPerson") = {}

\* a summary is requested for a run of two attendees, one search having failed
C1_Witness ==
  /\ OutstandingOf("generatePersonSummary") # {}
  /\ Len(attendees) >= 2
  /\ Failed(results)

\* C2: at most one searchPerson or generatePersonSummary request of the run
\* is outstanding, and request i+1 is issued only after request i returned.
C2_OneRequestAtATime ==
  /\ Cardinality(outstanding) <= 1
  /\ Len(searchCalls) <= Len(results) + 1
  /\ Len(summaryCalls) <= Len(summariesResults) + 1
  /\ \A call \in OutstandingOf("searchPerson") :
       call.i = Len(results) + 1 /\ Len(searchCalls) = call.i
  /\ \A call \in OutstandingOf("generatePersonSummary") :
       call.i = Len(summariesResults) + 1 /\ Len(summaryCalls) = call.i

\* the request for the second attendee is outstanding, the first has returned
C2_Witness ==
  /\ Cardinality(outstanding) = 1
  /\ Len(results) = 1
  /\ Len(searchCalls) = 2

\* C3: searchPerson is called once per attendee selected when the run
\* started, generatePersonSummary once per search record, in order, and a
\* call is not repeated when it failed.
C3_OnceEach ==
  /\ [](/\ Len(searchCalls) <= Len(attendees)
        /\ \A k \in 1..Len(searchCalls) : searchCalls[k] = attendees[k].name
        /\ Len(searchCalls) = Len(results) + Cardinality(OutstandingOf("searchPerson"))
        /\ Len(summaryCalls) <= Len(results)
        /\ \A k \in 1..Len(summaryCalls) : summaryCalls[k] = results[k].name
        /\ Len(summaryCalls) = Len(summariesResults)
                                 + Cardinality(OutstandingOf("generatePersonSummary"))
        /\ (runPc = "finally" \/ RunFinished) =>
             /\ Len(searchCalls) = Len(attendees)
             /\ Len(summaryCalls) = Len(attendees))
  /\ [][runs' # runs =>
          /\ Len(attendees') = Len(selectedAttendeesDetails)
          /\ \A k \in 1..Len(attendees') :
               attendees'[k].email = selectedAttendeesDetails[k].attendee.email]_vars

\* a run of two attendees has finished with a failed search and a failed summary
C3_Witness ==
  /\ RunFinished
  /\ Len(attendees) >= 2
  /\ Failed(results)
  /\ Failed(summariesResults)

\* C4: when a run finishes, searchResults and summaries each hold one record
\* per attendee of the run, in selection order, the i-th with the i-th name.
C4_ResultsPerAttendee ==
  [][(runPc = "finally" /\ runPc' = "idle") =>
       /\ Len(searchResults') = Len(attendees)
       /\ Len(summaries') = Len(attendees)
       /\ \A k \in 1..Len(attendees) :
            /\ searchResults'[k].name = attendees[k].name
            /\ summaries'[k].name = attendees[k].name]_vars

\* Clear All was pressed while the summaries of two attendees were requested:
\* the run has finished, summaries holds both records, searchResults none
C4_Cleared ==
  /\ RunFinished
  /\ Len(attendees) >= 2
  /\ Len(summaries) = Len(attendees)
  /\ searchResults = <<>>
  /\ ~showResults

\* C5: once no handleAttendeeSelect call is pending, the selected keys are
\* the result of applying the clicks as toggles in click order.
C5_EveryClickTakesEffect ==
  pendingSelects = <<>> => selectedAttendees = expectedSel

\* two clicks arrived while a contact lookup was pending and both calls have
\* completed: the selected keys are not what the two toggles give
C5_LostClick ==
  /\ pendingSelects = <<>>
  /\ clicks >= 2
  /\ selectedAttendees # expectedSel

\* C11: a research run starts only with at least one attendee selected and
\* while no run is in progress; isSearching is true exactly while a run is in
\* progress and is set only by the start of a run, so at most one run is
\* active; with an empty selection nothing starts.
C11_RunStartGuard ==
  /\ [](isSearching <=> runPc # "idle")
  /\ [][runs' # runs =>
          /\ Len(selectedAttendeesDetails) > 0
          /\ ~isSearching /\ runPc = "idle"
          /\ isSearching' /\ runPc' # "idle"]_vars
  /\ [][(isSearching' /\ ~isSearching) => runs' # runs]_vars
  /\ [][(Len(selectedAttendeesDetails) = 0 /\ runPc = "idle") =>
          UNCHANGED runVars]_vars

\* a second run is in progress after the first has finished
C11_Witness == runs = 2 /\ isSearching /\ runPc = "searchCall" /\ summaries # <<>>

\* C12: every research run ends with the loading indicator cleared: a run
\* that has started reaches its end, also when a stage threw, and whenever no
\* run is in progress isSearching is false and loadingState is undefined.
C12_LoadingCleared ==
  /\ [](runPc = "idle" => (~isSearching /\ loadingState = Null))
  /\ (runPc # "idle") ~> (runPc = "idle" /\ ~isSearching /\ loadingState = Null)

\* a run has ended after its summary stage threw, the indicator cleared
C12_Witness ==
  /\ RunFinished
  /\ ~isSearching /\ loadingState = Null
  /\ searchResults # <<>>
  /\ Len(summariesResults) < Len(attendees)

\* C13: during a research run loadingState has 0 <= progress <= total with
\* total the number of attendees of the run; within a stage progress never
\* decreases, starts at 0 and ends at total; the stage goes from 'searching'
\* to 'summarizing' and never back, and is never 'analyzing'.
C13_LoadingProgress ==
  /\ [](loadingState # Null =>
          /\ loadingState.stage \in {"searching", "summarizing"}
          /\ 0 <= loadingState.progress
          /\ loadingState.progress <= loadingState.total
          /\ loadingState.total = Len(attendees))
  /\ [](runPc \in {"searchWait", "summaryWait", "finally"} =>
          loadingState.progress = loadingState.total)
  /\ [][(loadingState # Null /\ loadingState' # Null) =>
          /\ loadingState'.stage = loadingState.stage =>
               loadingState'.progress >= loadingState.progress
          /\ loadingState'.stage # loadingState.stage =>
               /\ loadingState.stage = "searching"
               /\ loadingState.progress = loadingState.total
               /\ loadingState'.stage = "summarizing"
               /\ loadingState'.progress = 0]_vars
  /\ [][(loadingState = Null /\ loadingState' # Null) =>
          loadingState'.stage = "searching" /\ loadingState'.progress = 0]_vars

\* the summary stage of a run of two attendees has reached its total
C13_Witness ==
  /\ loadingState # Null
  /\ loadingState.stage = "summarizing"
  /\ loadingState.total >= 2
  /\ loadingState.progress = loadingState.total

\* C14: in the results view, while a loading state is present the width of
\* the progress bar never decreases: after each new loading state it is the
\* larger of the width before and 100 * progress / total; it is 0 when the
\* view appears and goes back to 0 only when the loading state is cleared.
C14_ProgressBarMonotonic ==
  /\ []((showResults /\ loadingState # Null) =>
          /\ ~Wider(targetWidth(loadingState), progressWidth)
          /\ ~Wider(progressWidth, [num |-> 100, den |-> 1]))
  /\ []((showResults /\ loadingState = Null) => progressWidth.num = 0)
  /\ [][(showResults /\ showResults' /\ loadingState # Null /\ loadingState' # Null) =>
          /\ ~Wider(progressWidth, progressWidth')
          /\ progressWidth' = IF Wider(targetWidth(loadingState'), progressWidth)
                              THEN targetWidth(loadingState') ELSE progressWidth]_vars
  /\ [][(showResults /\ showResults' /\ progressWidth.num > 0 /\ progressWidth'.num = 0) =>
          loadingState' = Null]_vars

\* the summary stage has begun at progress 0 and the bar stays full
C14_Witness ==
  /\ showResults
  /\ loadingState # Null
  /\ loadingState.stage = "summarizing"
  /\ loadingState.progress = 0
  /\ progressWidth.num = 100 * progressWidth.den

\* C15: once Clear All has emptied the selection and searchResults and hidden
\* the results view, searchResults stays empty until Continue is pressed
\* again, also when a run was in progress: with the view hidden and
\* searchResults empty, only a step that starts a run may be followed by a
\* non-empty searchResults.
C15_ClearedStaysEmpty ==
  [][(~showResults /\ searchResults = <<>> /\ runs' = runs) =>
       searchResults' = <<>>]_vars

\* Clear All was pressed during the search stage of the only run started: the
\* selection is empty, the view hidden, and searchResults holds the results
C15_StaleResults ==
  /\ runs = 1
  /\ ~showResults
  /\ Len(selectedAttendeesDetails) = 0
  /\ searchResults # <<>>

\* how often fetchContactDetails was called with an email
LookupsOf(email) == Cardinality({k \in 1..Len(contactCalls) : contactCalls[k] = email})

\* C17: fetchContactDetails is called at most once for an email address over
\* any sequence of selections and deselections, selections made while an
\* earlier lookup of the email is pending included.
C17_OneLookupPerEmail ==
  \A k \in 1..Len(contactCalls) : LookupsOf(contactCalls[k]) <= 1

\* two lookups of one email are pending at once
C17_LookupRepeated ==
  /\ Len(pendingSelects) = 2
  /\ pendingSelects[1].attendee.email = pendingSelects[2].attendee.email
  /\ LookupsOf(pendingSelects[1].attendee.email) = 2
  /\ enhancedAttendees = {}

\* C18: selectedAttendees is the set of the keys of selectedAttendeesDetails,
\* and every key is `${eventId}-${email}` of the entry it maps to, after any
\* interleaving of select, deselect, manual add and Clear All.
C18_KeysMatchDetails ==
  /\ selectedAttendees =
       {selectedAttendeesDetails[k].key : k \in 1..Len(selectedAttendeesDetails)}
  /\ \A k \in 1..Len(selectedAttendeesDetails) :
       LET entry == selectedAttendeesDetails[k]
       IN /\ entry.key = AttendeeKey(entry.eventId, entry.attendee.email)
          /\ \A j \in 1..Len(selectedAttendeesDetails) :
               selectedAttendeesDetails[j].key = entry.key => j = k

\* a calendar attendee and a manual one are selected, after a deselection
C18_Witness ==
  /\ clicks = 3
  /\ pendingSelects = <<>>
  /\ Len(selectedAttendeesDetails) = 2
  /\ \E k \in 1..2 : selectedAttendeesDetails[k].eventId = <<"m", "a", "n", "u", "a", "l", "-", "0">>
  /\ Cardinality(selectedAttendees) = 2

\* C19: the lookup strategies run in the order exact email, local part, name
\* from email, a later one only when every earlier one found no person; a
\* call that got past the gapi wait with an email containing '@' returns
\* details, and returns the fallback derived from the email when no strategy
\* found a person or a People API call threw.
C19_StrategiesInOrder ==
  /\ \A k \in 1..Len(queries) :
       /\ queries[k].strategy = k
       /\ \A j \in 1..(k - 1) : ~queries[j].found
  /\ (lookupPc = "returned" /\ apiSign /\ Includes(lookupEmail, <<"@">>)) =>
       /\ lookupResult # Null
       /\ (threw \/ lookupPerson = Null) =>
            lookupResult = FallbackDetails(lookupEmail)

\* the third strategy found the person, whose profile gave the details
C19_Witness ==
  /\ lookupPc = "returned"
  /\ queries = <<[strategy |-> 1, found |-> FALSE], [strategy |-> 2, found |-> FALSE],
                 [strategy |-> 3, found |-> TRUE]>>
  /\ lookupPerson = PersonAnn
  /\ lookupResult = ProfileDetails

\* C20: once the wait for the gapi client has ended, by the client being
\* seen or by the timeout that makes fetchContactDetails return null, no
\* polling timer remains active.
C20_NoPollingTimerLeft == lookupPc \notin {"idle", "wait"} => ~checkGapi

\* the wait timed out, fetchContactDetails returned null, the interval runs on
C20_TimerLeaks ==
  /\ lookupPc = "gaveUp"
  /\ lookupResult = Null
  /\ ~gapiTimeout
  /\ waited = TimeoutTicks
  /\ checkGapi

\* the fetch of the call failed: network error, non-OK response, unparsable body
CallFailed ==
  \/ callResponse.kind = "rejected"
  \/ ~callResponse.ok
  \/ callResponse.body = Unparsable

\* C16: searchPerson and generatePersonSummary never reject: when the fetch
\* rejects, answers with a non-OK status or with a body that is not JSON, the
\* promise is fulfilled with a record that carries the requested name, empty
\* searchResults resp. an empty summary, and a non-empty error message.
C16_FailuresReturned ==
  callPc = "settled" =>
    /\ "rejected" \notin DOMAIN callResult
    /\ CallFailed =>
         /\ callResult.name = RequestedName
         /\ callFn = "searchPerson" => callResult.searchResults = <<>>
         /\ callFn = "generatePersonSummary" => callResult.summary = <<>>
         /\ callResult.error # NoError
         /\ Len(callResult.error[1]) > 0

C16_Witness ==
  /\ callPc = "settled"
  /\ callFn = "generatePersonSummary"
  /\ callResponse.kind = "response" /\ ~callResponse.ok
  /\ callResponse.body = Unparsable
  /\ callResult.name = <<"B", "o">>
  /\ callResult.error = Some(StatusMessage(<<"A", "P", "I", " ", "e", "r", "r", "o", "r", ":", " ">>, BadGateway))

\* the insertText requests of a batch, in the order of the batch
InsertTexts(requests) == SelectSeq(requests, LAMBDA r : r.type = "insertText")

RECURSIVE InsertedLength(_, _)
\* the total length of the texts of the first k inserts
InsertedLength(inserts, k) ==
  IF k = 0 THEN 0 ELSE Len(inserts[k].text) + InsertedLength(inserts, k - 1)

StartsWith(s, pat) == MatchAt(s, 1, pat)

\* C6: in the batch of createMeetingDoc the first insertText is at index 1,
\* every later insertText is at 1 plus the total length of the texts inserted
\* before it, and the inserts come in document order: title, Key Takeaways,
\* Action Items, Professional Summary, Sources, then every source in list
\* order.
C6_InsertsContiguous ==
  docRequests # <<>> =>
    LET inserts == InsertTexts(docRequests)
        person == docInput.personSummary
        sources == IF person.sources = None THEN <<>> ELSE person.sources[1]
    IN /\ Len(inserts) = 8 + 2 * Len(sources)
       /\ inserts[1].index = 1
       /\ \A k \in 2..Len(inserts) :
            inserts[k].index = 1 + InsertedLength(inserts, k - 1)
       /\ inserts[1].text = person.name \o <<" ">> \o docInput.date
                              \o <<" ", "-", " ", "M", "e", "e", "t", "i", "n", "g", " ", "N", "o", "t", "e", "s", "\n">>
       /\ StartsWith(inserts[2].text, <<"K", "e", "y", " ", "T", "a", "k", "e", "a", "w", "a", "y", "s">>)
       /\ StartsWith(inserts[4].text, <<"A", "c", "t", "i", "o", "n", " ", "I", "t", "e", "m", "s">>)
       /\ StartsWith(inserts[6].text, <<"P", "r", "o", "f", "e", "s", "s", "i", "o", "n", "a", "l", " ", "S", "u", "m", "m", "a", "r", "y">>)
       /\ inserts[7].text = person.summary \o <<"\n", "\n">>
       /\ StartsWith(inserts[8].text, <<"S", "o", "u", "r", "c", "e", "s">>)
       /\ \A k \in 1..Len(sources) :
            /\ inserts[8 + 2 * k - 1].text = ToDecimal(k) \o <<".", " ">>
            /\ inserts[8 + 2 * k].text = sources[k].title \o <<"\n">>

\* a batch for a summary with two sources, the first without a title
C6_Witness ==
  /\ docPc = "update"
  /\ Len(InsertTexts(docRequests)) = 12
  /\ docInput.personSummary.sources[1][1].title = <<>>
  /\ Len(docInput.personSummary.summary) > 0

\* the <a> children of a rendered summary, in order
Links(nodes) == SelectSeq(nodes, LAMBDA node : node.type = "a")

RECURSIVE TagScan(_, _, _)
\* the numbers k <= n of the tags [Source k] in a text, left to right
TagScan(text, n, pos) ==
  IF pos > Len(text) THEN <<>>
  ELSE IF \E k \in 1..n : MatchAt(text, pos, SourceTag(k))
       THEN LET k == CHOOSE j \in 1..n : MatchAt(text, pos, SourceTag(j))
            IN <<k>> \o TagScan(text, n, pos + Len(SourceTag(k)))
       ELSE TagScan(text, n, pos + 1)

\* C7: for a person with n search results the prompt of the summary route
\* lists the sources as [Source 1]..[Source n] in result order, the route
\* returns a sources list of length n in the same order, and the rendered
\* summary links every occurrence of [Source k], 1 <= k <= n, to the URL of
\* the k-th search result.
C7_SourcesNumberedAndLinked ==
  LET found == IF sumInput = Null THEN <<>> ELSE sumInput.searchResults
      n == Len(found)
  IN /\ (sumPc \in {"client", "show", "view"} /\ n > 0) =>
          LET lines == Split(sourcesList(sumInput), <<"\n">>)
              blocks == Split(combinedText(sumInput), <<"\n", "\n">>)
          IN /\ Len(lines) = n /\ Len(blocks) = n
             /\ \A k \in 1..n :
                  /\ lines[k] = SourceTag(k) \o <<" ">> \o found[k].title
                                  \o <<" ", "(">> \o found[k].url \o <<")">>
                  /\ blocks[k] = SourceTag(k) \o <<"\n">> \o found[k].text
             /\ Includes(sumPrompt, sourcesList(sumInput))
             /\ Includes(sumPrompt, combinedText(sumInput))
     /\ (sumPc \in {"client", "show", "view"} /\ sumResponse.ok) =>
          /\ sumResponse.body.sources # None
          /\ Len(sumResponse.body.sources[1]) = n
          /\ \A k \in 1..n : /\ sumResponse.body.sources[1][k].url = found[k].url
                             /\ sumResponse.body.sources[1][k].title = found[k].title
     /\ (sumPc = "view" /\ sumRecord.error = NoError) =>
          LET links == Links(sumParts)
              tags == TagScan(sumRecord.summary, n, 1)
          IN /\ Len(links) = Len(tags)
             /\ \A i \in 1..Len(links) :
                  /\ links[i].href = found[tags[i]].url
                  /\ links[i].text = SourceTag(tags[i])
             /\ Join([i \in 1..Len(sumParts) |-> sumParts[i].text], <<>>)
                  = sumRecord.summary

\* a summary of a person with two results is rendered whose first tag is
\* [Source 2] and whose second is [Source 1]
C7_Witness ==
  /\ sumPc = "view"
  /\ Len(sumInput.searchResults) = 2
  /\ sumInput.searchResults[1] # sumInput.searchResults[2]
  /\ Len(Links(sumParts)) = 2
  /\ Links(sumParts)[1].href = sumInput.searchResults[2].url
  /\ Links(sumParts)[2].href = sumInput.searchResults[1].url

\* C8: createMeetingDoc resolves only if the create call and the batchUpdate
\* call both succeeded, and then with a URL that contains the documentId the
\* create call returned; no batchUpdate is sent when the create call failed;
\* every failure makes createMeetingDoc reject.
C8_ResolvesOnlyOnSuccess ==
  /\ docResult.status = "resolved" =>
       /\ docLog.createOk /\ docLog.updateOk
       /\ docLog.createdId # <<>>
       /\ Includes(docResult.url, docLog.createdId)
       /\ docResult.url = <<"h", "t", "t", "p", "s", ":", "/", "/", "d", "o", "c", "s", ".", "g", "o", "o", "g", "l", "e", ".", "c", "o", "m", "/", "d", "o", "c", "u", "m", "e", "n", "t", "/", "d", "/">>
                            \o docLog.createdId \o <<"/", "e", "d", "i", "t">>
  /\ docLog.updateSent => docLog.createOk
  /\ docLog.failed => docResult.status = "rejected"
  /\ docResult.status = "rejected" => docLog.failed

\* a call resolved after the Docs API had to be loaded and probed
C8_Witness ==
  /\ docResult.status = "resolved"
  /\ docLog.probes = 1
  /\ docPc = "idle"

\* a call rejected because the batchUpdate failed after a successful create
C8_UpdateFailed ==
  /\ docResult.status = "rejected"
  /\ docResult.message = FailedToUpdate
  /\ docLog.createOk

\* C9: isSignedIn is true, and listUpcomingEvents is called and events are
\* set, only after a handleAuthClick has succeeded (one fetch per success at
\* most); a failing sign-in leaves isSignedIn, the fetches and events as
\* they were, so isSignedIn stays false.
C9_SignInGatesEvents ==
  /\ [](/\ isSignedIn => authOk > 0
        /\ fetchCalls <= authOk
        /\ listPending <= fetchCalls
        /\ events # <<>> => authOk > 0
        /\ authOk = 0 => ~isSignedIn /\ fetchCalls = 0 /\ events = <<>>)
  /\ [][authFailed' # authFailed =>
          /\ isSignedIn' = isSignedIn
          /\ fetchCalls' = fetchCalls /\ listPending' = listPending
          /\ events' = events]_vars

\* a sign-in failed and is still not signed in, nothing fetched
C9_Witness == authFailed > 0 /\ ~isSignedIn /\ authPending = 0 /\ fetchCalls = 0

\* C10: a click on a day selects that day and clears the week selection, a
\* shift-click selects the week of the day and clears selectedDayEvents, and
\* selectedDayEvents and selectedWeekEvents are never both non-empty.
C10_DayXorWeek ==
  /\ ~(Len(selectedDayEvents) > 0 /\ Len(selectedWeekEvents) > 0)
  /\ lastClick.kind = "day" =>
       /\ selectedDate = lastClick.date
       /\ selectedWeek = NoDate
       /\ selectedWeekEvents = <<>>
       /\ \A k \in 1..Len(selectedDayEvents) :
            DayOf(selectedDayEvents[k].start) = DayOf(lastClick.date)
  /\ lastClick.kind = "week" =>
       /\ selectedDate = lastClick.date
       /\ selectedWeek = startOfWeek(lastClick.date)
       /\ selectedWeek % (DaysPerWeek * HoursPerDay) = 0
       /\ selectedDayEvents = <<>>
       /\ \A k \in 1..Len(selectedWeekEvents) :
            /\ selectedWeekEvents[k].start >= selectedWeek
            /\ selectedWeekEvents[k].start < selectedWeek + DaysPerWeek * HoursPerDay

\* a week was selected while a day with events was selected
C10_Witness ==
  lastClick.kind = "week" /\ lastClick.hadDay /\ Len(selectedWeekEvents) > 0


\* C21: the wait of loadDocsApi for the gapi client ends after at most 50
\* ticks of its interval: it ends with success at the first tick that sees
\* the client, or rejects with the timeout message at the 50th tick, and the
\* interval is cleared whenever the wait has ended.
C21_DocsWaitBounded ==
  /\ [](/\ attempts <= maxAttempts
        /\ docPc = "gapiWait" => (docsCheckGapi /\ attempts < maxAttempts)
        /\ docPc # "gapiWait" => ~docsCheckGapi
        /\ docResult.message = GapiTimeout =>
             (docResult.status = "rejected" /\ attempts = maxAttempts))
  /\ [][(docPc = "gapiWait" /\ attempts' = attempts + 1) =>
          /\ gapiClient => (docPc' # "gapiWait" /\ docResult'.message # GapiTimeout)
          /\ (~gapiClient /\ attempts' = maxAttempts) =>
               (docPc' = "idle" /\ docResult' = DocRejection(GapiTimeout))
          /\ (~gapiClient /\ attempts' < maxAttempts) => docPc' = "gapiWait"]_vars

\* the wait gave up at the 50th tick and cleared its interval
C21_Witness ==
  /\ attempts = maxAttempts
  /\ docPc = "idle"
  /\ docResult = DocRejection(GapiTimeout)
  /\ ~docsCheckGapi
  /\ ~gapiClient

\* a call of createMeetingDoc has settled
DocSettled == docPc = "idle" /\ docResult.status \in {"rejected", "resolved"}

\* no request of the call went to the Docs API
NoDocsRequest == docLog.probes = 0 /\ ~docLog.createSent /\ ~docLog.updateSent

\* C22 as stated: a call of createMeetingDoc during which there is no auth
\* token sends no request to the Docs API and rejects with the sign-in message.
C22_NoTokenRejects ==
  (DocSettled /\ ~docLog.hadToken) =>
    (NoDocsRequest /\ docResult = DocRejection(NotAuthenticated))

\* C22 amended: such a call sends no request; it rejects with the sign-in
\* message when the gapi client was there at the call or was seen by one of
\* the 50 polling attempts, and with the timeout message otherwise.
C22_NoTokenRejectsOnceClientSeen ==
  (DocSettled /\ ~docLog.hadToken) =>
    /\ NoDocsRequest
    /\ docResult.status = "rejected"
    /\ docResult.message = IF docLog.clientSeen THEN PleaseSignIn ELSE GapiTimeout

\* the client arrived during the wait, there was no token, the call rejected
C22_Witness ==
  /\ DocSettled
  /\ ~docLog.hadToken /\ docLog.clientSeen
  /\ attempts > 0
  /\ docResult.message = PleaseSignIn
  /\ NoDocsRequest

\* C23: the document create call is issued only if a probe of this call or of
\* an earlier call of the session answered 404; a probe answering another
\* status prevents creation until a probe has answered 404.
C23_CreateOnlyVerified == docLog.createSent => docsVerified

\* a document was created although no probe of the session ever answered 404
C23_CreatedUnverified ==
  /\ docsLoaded /\ ~docsVerified
  /\ docLog.probes = 0
  /\ docLog.createOk
  /\ docResult.status = "resolved"

RECURSIVE InsertedBefore(_, _)
\* 1 plus the length of the texts the inserts before request p of a batch put in
InsertedBefore(requests, p) ==
  IF p <= 1 THEN 1
  ELSE InsertedBefore(requests, p - 1)
         + (IF requests[p - 1].type = "insertText" THEN Len(requests[p - 1].text) ELSE 0)

\* the ranges of a batch lie in inserted text, headings and links as claimed
RangesPlaced(requests) ==
  \A p \in 1..Len(requests) :
    LET r == requests[p]
    IN r.type # "insertText" =>
         /\ r.startIndex >= 1
         /\ r.endIndex <= InsertedBefore(requests, p)
         /\ r.startIndex = requests[p - 1].index
         /\ (r.type = "updateParagraphStyle" /\ r.namedStyleType = "HEADING_2") =>
              r.endIndex = r.startIndex + Len(requests[p - 1].text) - 1
         /\ r.type = "updateTextStyle" =>
              /\ r.endIndex = r.startIndex + Len(requests[p - 1].text) - 1
              /\ requests[p - 1].text[Len(requests[p - 1].text)] = "\n"

\* C24: in the batch of createMeetingDoc every style range is non-empty,
\* starts at an index >= 1 and lies within text inserted earlier in the batch;
\* a heading range leaves out the blank line after the heading and a link
\* range covers the source title without its newline; for every summary and
\* source list, empty titles and an empty list included.
C24_RangesNonEmptyAndPlaced ==
  docRequests # <<>> =>
    /\ RangesPlaced(docRequests)
    /\ \A p \in 1..Len(docRequests) :
         docRequests[p].type # "insertText" =>
           docRequests[p].startIndex < docRequests[p].endIndex

\* the batch holds a link range of no character, for a source without title
C24_EmptyLinkRange ==
  /\ docPc = "update"
  /\ RangesPlaced(docRequests)
  /\ \E p \in 1..Len(docRequests) :
       /\ docRequests[p].type = "updateTextStyle"
       /\ docRequests[p].startIndex = docRequests[p].endIndex
       /\ docRequests[p - 1].text = <<"\n">>

\* the documents created for a name
DocsFor(name) == Cardinality({k \in 1..Len(docsCreated) : docsCreated[k] = name})

\* C25: once docUrls has an entry for a person and the button reads View
\* Notes, a click on it creates no further document; at most one document is
\* created per person per results view.
C25_OneDocPerPerson ==
  /\ [](\A summary \in NotesSummaries : DocsFor(summary.name) <= 1)
  /\ [][\A summary \in NotesSummaries :
          Len(UrlOf(summary.name)) > 0 =>
            /\ summary.name \notin notesPending'
            /\ DocsFor(summary.name)' = DocsFor(summary.name)]_vars

\* View Notes was clicked and a second document was created for the person
C25_SecondDocument ==
  /\ docsCreated = <<<<"A">>, <<"A">>>>
  /\ UrlOf(<<"A">>) = DocUrl(<<"d", "2">>)
  /\ ButtonLabel(<<"A">>) = "View Notes"
====
